---- MODULE Spec2Model ----
(***************************************************************************)
(* A model of the deque engine of libcstl (cstl_deque.c): the directory     *)
(* ("map") of Block pointers, the Blocks, the start and finish iterators,  *)
(* the iterator arithmetic, the growth / shrink engine, the move engine    *)
(* and the facade operations built from them.                              *)
(*                                                                         *)
(* Addresses.  A Block is named by a positive integer (its address); NULL  *)
(* is 0 and Wild is a pointer value that was never stored by the deque     *)
(* (the content of memory outside the directory).  An element address is   *)
(* <<block, offset>>; an iterator's _pc_first is the block, _pc_afterlast   *)
(* is always block + _DEQUE_ELEM_COUNT (the code sets the two together)    *)
(* and _pc_corepos is kept as the offset from _pc_first, in elements.      *)
(* A directory pointer _ppc_mappos is kept as the index from _ppc_map.     *)
(***************************************************************************)
EXTENDS Integers, Sequences, FiniteSets, TLC

_DEQUE_MAP_COUNT == 16
_DEQUE_MAP_GROW_STEP == 8
_DEQUE_ELEM_COUNT == 16

NULL == 0
Wild == 0 - 1
\* The content of memory nobody wrote (a fresh Block, foreign memory).
Garbage == 0 - 1
\* What the element type's init function leaves in a slot (an int: 0).
DefaultValue == 0

\* size_t arithmetic: every quantity of the model is far below SizeWidth, so
\* a negative difference wraps to a value above every other, as it does
\* modulo 2^64 in the code.
SizeWidth == 2 ^ 30
SizeT(x) == x % SizeWidth

\* Unrolling bound of the loops: a loop runs at most 4^LoopDepth iterations,
\* which is 2^LoopLog or, for an odd LoopLog, 2^(LoopLog + 1).
LoopLog == 10

LoopDepth == (LoopLog + 1) \div 2

\* A loop is unrolled as a balanced tree of depth LoopDepth over its
\* iterations, four subtrees to a node, each run from the state the one
\* before it has left; the field run of a loop state says that the loop
\* condition has not failed yet.

\* The operands of a loop are values, as the arguments of a C call are: a
\* loop is entered as Only({Loop(x.a, ...) : x \in {[a |-> a, ...]}}), which
\* binds x to the record of the evaluated operands.
Only(S) == CHOOSE r \in S : TRUE

(***************************************************************************)
(* Memory.  d.map is the directory: a function whose domain holds the      *)
(* slots 0 .. d.mapsize-1 and, after an out-of-bounds store that happened  *)
(* to stick, slots outside.  d.blocks maps each allocated Block to its 16  *)
(* slots.  d.smashed records that a directory store went outside the       *)
(* directory (memory of the heap next to it was overwritten and the run    *)
(* goes on); d.fault records an access through a pointer that addresses no *)
(* Block, a free of such a pointer or a loop that left the deque: the run  *)
(* ends there.                                                             *)
(***************************************************************************)
InMap(d, i) == i >= 0 /\ i < d.mapsize

MapAt(d, i) == IF i \in DOMAIN d.map THEN d.map[i] ELSE Wild

\* Stores into directory slots: f maps slot indices to the pointers stored.
\* A store outside the directory is undefined behaviour; of the outcomes a
\* build can show, luck = "kept" leaves the pointers readable where they were
\* written and luck = "lost" leaves foreign content (Wild) there.
MapStoreMany(d, f, luck) ==
    LET outb == {i \in DOMAIN f : ~InMap(d, i)}
        dom  == IF luck = "kept" THEN (DOMAIN d.map) \cup (DOMAIN f)
                ELSE ((DOMAIN d.map) \cup (DOMAIN f)) \ outb
    IN  [d EXCEPT !.map = [i \in dom |-> IF i \in DOMAIN f THEN f[i]
                                          ELSE d.map[i]],
                  !.smashed = @ \/ (outb # {}),
                  !.g.oob = @ \/ (outb # {})]

EmptyBlock == [o \in 0 .. (_DEQUE_ELEM_COUNT - 1) |-> Garbage]

ValidAddr(d, a) == a[1] \in DOMAIN d.blocks /\ a[2] >= 0 /\ a[2] < _DEQUE_ELEM_COUNT

Load(d, a) == IF ValidAddr(d, a) THEN d.blocks[a[1]][a[2]] ELSE Garbage

Store(d, a, v) ==
    IF ValidAddr(d, a)
    THEN [d EXCEPT !.blocks[a[1]][a[2]] = v, !.g.wr = Append(@, a)]
    ELSE [d EXCEPT !.fault = TRUE]

\* The addresses of n successive allocate(&alloc, typesize, _DEQUE_ELEM_COUNT)
\* calls: the n lowest addresses not in use, in increasing order.
FreshBlocks(d, n) ==
    LET free == (1 .. (Cardinality(DOMAIN d.blocks) + n)) \ (DOMAIN d.blocks)
    IN  [i \in 0 .. (n - 1) |->
            CHOOSE b \in free : Cardinality({c \in free : c < b}) = i]

AllocBlocks(d, ids) ==
    LET new == {ids[i] : i \in DOMAIN ids}
    IN  [d EXCEPT !.blocks = [b \in (DOMAIN d.blocks) \cup new |->
                                 IF b \in new THEN EmptyBlock ELSE d.blocks[b]],
                  !.g.allocs = @ + Cardinality(new)]

\* deallocate(&alloc, b, typesize, _DEQUE_ELEM_COUNT).
FreeBlock(d, b) ==
    IF b \in DOMAIN d.blocks
    THEN [d EXCEPT !.blocks = [c \in (DOMAIN d.blocks) \ {b} |-> d.blocks[c]],
                   !.g.frees = @ + 1]
    ELSE [d EXCEPT !.fault = TRUE, !.g.frees = @ + 1]

\* The per-operation record of what the operation did (not program state).
NoTrace == [oob |-> FALSE, allocs |-> 0, frees |-> 0, inits |-> 0,
            destroys |-> 0, copies |-> 0, mcalls |-> 0, mcopies |-> 0,
            rd |-> <<>>, wr |-> <<>>, dd |-> <<>>, ii |-> <<>>, mfrees |-> 0,
            af |-> FALSE,
            branch |-> "none",
            side |-> "none"]

(***************************************************************************)
(* Iterators.                                                              *)
(***************************************************************************)
Iter(mp, f, c) == [mappos |-> mp, first |-> f, corepos |-> c]

create_deque_iterator == Iter(0, NULL, 0)

\* An equality that takes the two forms of a Block boundary for different.
IteratorSame(a, b) ==
    a.mappos = b.mappos /\ a.first = b.first /\ a.corepos = b.corepos

_deque_iterator_equal(a, b) ==
    IF a.mappos = b.mappos /\ a.first = b.first /\ a.corepos = b.corepos
    THEN TRUE
    ELSE IF a.mappos < b.mappos
         THEN a.mappos + 1 = b.mappos /\ a.corepos = _DEQUE_ELEM_COUNT
              /\ b.corepos = 0
         ELSE b.mappos + 1 = a.mappos /\ b.corepos = _DEQUE_ELEM_COUNT
              /\ a.corepos = 0

_deque_iterator_next(d, it) ==
    LET c == it.corepos + 1
    IN  IF c >= _DEQUE_ELEM_COUNT /\ it.mappos < d.finish.mappos
        THEN Iter(it.mappos + 1, MapAt(d, it.mappos + 1), c - _DEQUE_ELEM_COUNT)
        ELSE [it EXCEPT !.corepos = c]

\* A step back that never leaves the Block.
PrevInBlock(d, it) == [it EXCEPT !.corepos = @ - 1]

_deque_iterator_prev(d, it) ==
    LET c == it.corepos - 1
    IN  IF c < 0 /\ it.mappos > d.start.mappos
        THEN Iter(it.mappos - 1, MapAt(d, it.mappos - 1), _DEQUE_ELEM_COUNT - 1)
        ELSE [it EXCEPT !.corepos = c]

\* for(i = 0; i < n; ++i) it = iterator_next(it), unrolled as a balanced tree.
RECURSIVE NextTimes(_, _, _)
NextTimes(d, s, k) ==
    IF s.n <= 0 THEN s
    ELSE IF k = 0 THEN [it |-> _deque_iterator_next(d, s.it), n |-> s.n - 1]
    ELSE CHOOSE r \in {NextTimes(d, s4, k - 1) :
                       s4 \in {NextTimes(d, s3, k - 1) :
                       s3 \in {NextTimes(d, s2, k - 1) :
                       s2 \in {NextTimes(d, s, k - 1)}}}} : TRUE

RECURSIVE PrevTimes(_, _, _)
PrevTimes(d, s, k) ==
    IF s.n <= 0 THEN s
    ELSE IF k = 0 THEN [it |-> _deque_iterator_prev(d, s.it), n |-> s.n - 1]
    ELSE CHOOSE r \in {PrevTimes(d, s4, k - 1) :
                       s4 \in {PrevTimes(d, s3, k - 1) :
                       s3 \in {PrevTimes(d, s2, k - 1) :
                       s2 \in {PrevTimes(d, s, k - 1)}}}} : TRUE

_deque_iterator_next_n(d, it, n) ==
    Only({IF x.n >= 0 THEN NextTimes(x.d, [it |-> x.it, n |-> x.n], LoopDepth).it
          ELSE PrevTimes(x.d, [it |-> x.it, n |-> 0 - x.n], LoopDepth).it :
          x \in {[d |-> d, it |-> it, n |-> n]}})

_deque_iterator_prev_n(d, it, n) == _deque_iterator_next_n(d, it, 0 - n)

\* The element an iterator addresses: its corepos, or the first slot of the
\* next Block when corepos is the Block's one-past-last boundary.
_deque_iterator_get_pointer_auxiliary(d, it) ==
    IF it.corepos # _DEQUE_ELEM_COUNT
    THEN <<it.first, it.corepos>>
    ELSE <<MapAt(d, it.mappos + 1), 0>>

\* The loop of _deque_iterator_less: t_i walks from a until it equals the
\* finish iterator (the loop condition) or b (the return inside the loop).
\* A state is [i, hit, run].
LessCond(d, b, s) == ~_deque_iterator_equal(s.i, d.finish)

LessBody(d, b, s) ==
    IF _deque_iterator_equal(s.i, b) THEN [s EXCEPT !.hit = TRUE, !.run = FALSE]
    ELSE [s EXCEPT !.i = _deque_iterator_next(d, s.i)]

RECURSIVE LessLoop(_, _, _, _)
LessLoop(d, b, s, k) ==
    IF ~s.run THEN s
    ELSE IF k = 0
    THEN IF LessCond(d, b, s) THEN LessBody(d, b, s) ELSE [s EXCEPT !.run = FALSE]
    ELSE CHOOSE r \in {LessLoop(d, b, s4, k - 1) :
                       s4 \in {LessLoop(d, b, s3, k - 1) :
                       s3 \in {LessLoop(d, b, s2, k - 1) :
                       s2 \in {LessLoop(d, b, s, k - 1)}}}} : TRUE

_deque_iterator_less(d, a, b) ==
    Only({IF _deque_iterator_equal(x.a, x.b) THEN FALSE
          ELSE LessLoop(x.d, x.b, [i |-> x.a, hit |-> FALSE, run |-> TRUE],
                        LoopDepth).hit
               \/ _deque_iterator_equal(x.b, x.d.finish) :
          x \in {[d |-> d, a |-> a, b |-> b]}})

_deque_iterator_before(d, a, b) == _deque_iterator_less(d, a, b)

\* _deque_iterator_minus counting the Block of the subtrahend twice.
MinusWholeBlocks(d, a, b) ==
    IF _deque_iterator_before(d, a, b)
    THEN 0 - ((b.mappos - a.mappos) * _DEQUE_ELEM_COUNT
              + (_DEQUE_ELEM_COUNT - a.corepos) + b.corepos)
    ELSE IF _deque_iterator_equal(a, b) THEN 0
    ELSE (a.mappos - b.mappos) * _DEQUE_ELEM_COUNT
         + (_DEQUE_ELEM_COUNT - b.corepos) + a.corepos

\* The conversion of a size_t to int, and x * _DEQUE_ELEM_COUNT in size_t
\* (the product modulo SizeWidth, taken without leaving the integers of the
\* checker).
IntOf(x) ==
    IF SizeT(x) >= SizeWidth \div 2 THEN SizeT(x) - SizeWidth ELSE SizeT(x)

TimesElemCount(x) ==
    (x % (SizeWidth \div _DEQUE_ELEM_COUNT)) * _DEQUE_ELEM_COUNT

\* The sum with the whole slot difference for t_mapnodesize.
MinusSumWhole(first, second) ==
    SizeT((_DEQUE_ELEM_COUNT - first.corepos)
          + TimesElemCount(SizeT(second.mappos - first.mappos))
          + second.corepos)

\* t_beginsize + t_middlesize + t_endsize for first before second, all in
\* size_t: t_mapnodesize is the slot difference minus one, which wraps when
\* both iterators are in one Block.
MinusSum(first, second) ==
    SizeT((_DEQUE_ELEM_COUNT - first.corepos)
          + TimesElemCount(SizeT(second.mappos - first.mappos - 1))
          + second.corepos)

_deque_iterator_minus(d, a, b) ==
    IF _deque_iterator_before(d, a, b) THEN 0 - IntOf(MinusSum(a, b))
    ELSE IF _deque_iterator_equal(a, b) THEN 0
    ELSE IntOf(MinusSum(b, a))

\* iterator_distance(first, second) of a random access iterator.
iterator_distance(d, a, b) == _deque_iterator_minus(d, b, a)

deque_begin(d) == d.start
deque_end(d) == d.finish
deque_empty(d) == _deque_iterator_equal(d.start, d.finish)
deque_size(d) == iterator_distance(d, d.start, d.finish)

(***************************************************************************)
(* The element loops of the facade and of the growth / shrink engine:      *)
(*   for(it = b; !iterator_equal(it, e) && k < n; it = iterator_next(it))  *)
(*       op(_deque_iterator_get_pointer_auxiliary(it))                     *)
(* m.byEnd says whether the loop tests it against m.e, m.n is the count    *)
(* the loop tests its index against (or -1 for none), m.op is what is done *)
(* to the slot: "init" (the type's init function), "destroy" (the type's   *)
(* destroy function), "copy" (the type's copy function, from the value m.v *)
(* or, when m.src is not empty, from the next element of the source),      *)
(* "initcopy" (init, then copy from m.v).                                  *)
(***************************************************************************)
RangeCond(m, s) ==
    /\ (m.byEnd => ~_deque_iterator_equal(s.it, m.e))
    /\ (m.n >= 0 => s.k < m.n)

\* What the loop body does to the slot at address a.
RangeSlot(m, s, a) ==
    CASE m.op = "init" ->
             [Store(s.d, a, DefaultValue) EXCEPT !.g.inits = @ + 1,
                                                 !.g.ii = Append(@, a)]
      [] m.op = "destroy" ->
             [s.d EXCEPT !.g.destroys = @ + 1,
                         !.g.dd = Append(@, a),
                         !.fault = @ \/ ~ValidAddr(s.d, a)]
      [] m.op = "initcopy" ->
             [Store(s.d, a, m.v) EXCEPT !.g.inits = @ + 1,
                                        !.g.ii = Append(@, a),
                                        !.g.copies = @ + 1]
      [] OTHER ->
             [Store(s.d, a, IF m.src # <<>> THEN m.src[s.k + 1] ELSE m.v)
                EXCEPT !.g.copies = @ + 1]

RangeBody(m, s) ==
    [d |-> RangeSlot(m, s, _deque_iterator_get_pointer_auxiliary(s.d, s.it)),
     it |-> _deque_iterator_next(s.d, s.it), k |-> s.k + 1, run |-> TRUE]

RECURSIVE RangeLoop(_, _, _)
RangeLoop(m, s, k) ==
    IF ~s.run THEN s
    ELSE IF k = 0
    THEN IF RangeCond(m, s) THEN RangeBody(m, s) ELSE [s EXCEPT !.run = FALSE]
    ELSE CHOOSE r \in {RangeLoop(m, s4, k - 1) :
                       s4 \in {RangeLoop(m, s3, k - 1) :
                       s3 \in {RangeLoop(m, s2, k - 1) :
                       s2 \in {RangeLoop(m, s, k - 1)}}}} : TRUE

\* The loop run to its end; a loop that is still running after 4^LoopDepth
\* iterations has left the deque (it never meets its end iterator).
RangeEnded(s) == IF s.run THEN [s EXCEPT !.d.fault = TRUE] ELSE s

RunRange(m, d, b) ==
    Only({RangeEnded(RangeLoop(x.m, [d |-> x.d, it |-> x.b, k |-> 0, run |-> TRUE],
                               LoopDepth)) :
          x \in {[m |-> m, d |-> d, b |-> b]}})

InitMode(e) == [op |-> "init", byEnd |-> TRUE, e |-> e, n |-> 0 - 1,
                src |-> <<>>, v |-> DefaultValue]
DestroyMode(e) == [op |-> "destroy", byEnd |-> TRUE, e |-> e, n |-> 0 - 1,
                   src |-> <<>>, v |-> DefaultValue]
FillMode(e, v) == [op |-> "copy", byEnd |-> TRUE, e |-> e, n |-> 0 - 1,
                   src |-> <<>>, v |-> v]
FillCountMode(n, v) == [op |-> "copy", byEnd |-> FALSE, e |-> create_deque_iterator,
                        n |-> n, src |-> <<>>, v |-> v]
CopyMode(e, src) == [op |-> "copy", byEnd |-> TRUE, e |-> e, n |-> Len(src),
                     src |-> src, v |-> DefaultValue]
CopyCountMode(src) == [op |-> "copy", byEnd |-> FALSE, e |-> create_deque_iterator,
                       n |-> Len(src), src |-> src, v |-> DefaultValue]

_deque_init_elem_range_auxiliary(d, b, e) == RunRange(InitMode(e), d, b).d

(***************************************************************************)
(* Construction.                                                           *)
(***************************************************************************)
\* _create_deque_auxiliary: no directory, both iterators the null iterator.
Created ==
    [map |-> [i \in {} |-> NULL], mapsize |-> 0,
     blocks |-> [b \in {} |-> EmptyBlock],
     start |-> create_deque_iterator, finish |-> create_deque_iterator,
     fault |-> FALSE, smashed |-> FALSE, g |-> NoTrace]

\* The directory, the Blocks and the two iterators deque_init_n sets up,
\* before the elements are initialized.
InitLayout(count) ==
    LET endelem == IF count > 0 THEN count % _DEQUE_ELEM_COUNT ELSE 0
        valid   == IF count > 0
                   THEN (count + _DEQUE_ELEM_COUNT - 1) \div _DEQUE_ELEM_COUNT
                        + (IF endelem # 0 THEN 1 ELSE 2)
                   ELSE 2
        mapcount == IF valid > _DEQUE_MAP_COUNT
                    THEN _DEQUE_MAP_COUNT
                         + ((valid - _DEQUE_MAP_COUNT + _DEQUE_MAP_GROW_STEP - 1)
                            \div _DEQUE_MAP_GROW_STEP) * _DEQUE_MAP_GROW_STEP
                    ELSE _DEQUE_MAP_COUNT
        startpos == (mapcount - valid) \div 2
        map == [i \in 0 .. (mapcount - 1) |->
                   IF i >= startpos /\ i < startpos + valid
                   THEN i - startpos + 1 ELSE NULL]
    IN  [map |-> map, mapsize |-> mapcount,
         blocks |-> [b \in 1 .. valid |-> EmptyBlock],
         start |-> Iter(startpos, map[startpos], _DEQUE_ELEM_COUNT),
         finish |-> Iter(startpos + valid - 1, map[startpos + valid - 1], endelem),
         fault |-> FALSE,
         smashed |-> FALSE,
         g |-> [NoTrace EXCEPT !.allocs = valid]]

\* The loop of deque_init_n that initializes every element.
InitElems(d) == RunRange(InitMode(deque_end(d)), d, deque_begin(d)).d

deque_init_n(count) == InitElems(InitLayout(count))

deque_init == deque_init_n(0)

\* The element loop of _deque_init_elem without the copy of v.
KeepDefault(d, v) == InitElems(d)

\* _deque_init_elem(pt_deque, t_count, v): every element initialized, then
\* overwritten with a copy of v.
FillElems(d, v) ==
    RunRange([FillMode(deque_end(d), v) EXCEPT !.op = "initcopy"],
             d, deque_begin(d)).d

_deque_init_elem_varg(count, v) == FillElems(InitLayout(count), v)

\* deque_init_copy_range(dest, t_begin, t_end); src is the sequence of the
\* elements the source range [t_begin, t_end) yields.
CopyElems(d1, src) == RunRange(CopyMode(d1.finish, src), d1, d1.start).d

deque_init_copy_range(src) == CopyElems(deque_init_n(Len(src)), src)

(***************************************************************************)
(* The growth engine.  Both functions return [d, ret, pos]: the deque, the *)
(* iterator returned (the old end / the old begin) and the caller's        *)
(* iterator *pt_pos as the function leaves it.                             *)
(***************************************************************************)
\* A growth rounded down to the grow step (the source rounds up).
GrowSizeDown(containersize, remainmapsize) ==
    ((containersize - remainmapsize) \div _DEQUE_MAP_GROW_STEP)
        * _DEQUE_MAP_GROW_STEP

GrowSize(containersize, remainmapsize) ==
    ((containersize - remainmapsize + _DEQUE_MAP_GROW_STEP - 1)
        \div _DEQUE_MAP_GROW_STEP) * _DEQUE_MAP_GROW_STEP

\* The new directory of the reallocation branch: zeroed, then validmapsize
\* pointers copied from slot oldstart of the old directory to slot newpos.
NewMap(d, newsize, newpos, oldstart, validmapsize) ==
    [i \in 0 .. (newsize - 1) |->
        IF i >= newpos /\ i < newpos + validmapsize
        THEN MapAt(d, oldstart + (i - newpos)) ELSE NULL]

\* memmove(dst, src, n pointers) inside the directory.
MapMove(d, dst, src, n, luck) ==
    IF dst = src \/ n <= 0 THEN d
    ELSE MapStoreMany(d, [i \in dst .. (dst + n - 1) |-> MapAt(d, src + (i - dst))],
                      luck)

\* The directory part of _expand_at_end: make room for containersize Blocks
\* after the finish slot.  Returns [d, ret, pos] with the slot references of
\* start, finish, t_oldend (ret) and *pt_pos reset.
ExpandEndMap(d, oldend, pos, containersize, luck) ==
    LET validmapsize    == d.finish.mappos - d.start.mappos + 1
        remainendmapsize == SizeT(d.mapsize - oldend.mappos - 1)
        remainmapsize    == SizeT(d.mapsize - validmapsize)
    IN  IF containersize > remainmapsize
        THEN LET oldmapstartpos == SizeT(d.mapsize - validmapsize) \div 2
                 newsize == d.mapsize + GrowSize(containersize, remainmapsize)
                 newmapstartpos == SizeT(newsize - (validmapsize + containersize)) \div 2
                 posdistance == pos.mappos - d.start.mappos
             IN  [d |-> [d EXCEPT
                          !.map = NewMap(d, newsize, newmapstartpos,
                                         oldmapstartpos, validmapsize),
                          !.mapsize = newsize,
                          !.start.mappos = newmapstartpos,
                          !.finish.mappos = newmapstartpos + validmapsize - 1,
                          !.g.branch = "realloc"],
                  ret |-> [oldend EXCEPT
                             !.mappos = newmapstartpos + validmapsize - 1],
                  pos |-> [pos EXCEPT !.mappos = newmapstartpos + posdistance]]
        ELSE IF containersize > remainendmapsize /\ containersize <= remainmapsize
        THEN LET oldstartpossize == SizeT(d.mapsize - validmapsize) \div 2
                 newstartpossize == SizeT(d.mapsize - (validmapsize + containersize)) \div 2
                 movesize == oldstartpossize - newstartpossize
             IN  [d |-> [MapMove(d, d.start.mappos - movesize, d.start.mappos,
                                 validmapsize, luck)
                            EXCEPT !.start.mappos = @ - movesize,
                                   !.finish.mappos = @ - movesize,
                                   !.g.branch = "shift"],
                  ret |-> [oldend EXCEPT !.mappos = @ - movesize],
                  pos |-> [pos EXCEPT !.mappos = @ - movesize]]
        ELSE [d |-> [d EXCEPT !.g.branch = "attach"], ret |-> oldend, pos |-> pos]

\* The number of new Blocks for nomemsize elements that have no slot yet.
ContainerSize(nomemsize) ==
    (nomemsize + _DEQUE_ELEM_COUNT - 1) \div _DEQUE_ELEM_COUNT
    + (IF nomemsize % _DEQUE_ELEM_COUNT = 0 THEN 1 ELSE 0)

\* The branch of _expand_at_end with room in the finish Block.
ExpandEndRoom(d1, oldend, pos) ==
    [d |-> _deque_init_elem_range_auxiliary(d1, oldend, deque_end(d1)),
     ret |-> oldend, pos |-> pos]

\* The Blocks ids allocated and stored in the slots after the old end slot.
AttachAtEnd(r, ids, containersize, luck) ==
    MapStoreMany(AllocBlocks(r.d, ids),
                 [i \in (r.ret.mappos + 1) .. (r.ret.mappos + containersize) |->
                     ids[i - (r.ret.mappos + 1)]],
                 luck)

\* The new finish iterator, read back from directory slot fin.
SetFinish(d2, fin, validendsize) ==
    [d2 EXCEPT !.finish = Iter(fin, MapAt(d2, fin), validendsize)]

\* The new elements initialized.
InitNewEnd(d3, r) ==
    [d |-> _deque_init_elem_range_auxiliary(d3, r.ret, deque_end(d3)),
     ret |-> r.ret, pos |-> r.pos]

\* The branch of _expand_at_end that needs new Blocks, after the directory
\* made room for them (r).
ExpandEndGrow(r, containersize, validendsize, luck) ==
    InitNewEnd(SetFinish(AttachAtEnd(r, FreshBlocks(r.d, containersize),
                                     containersize, luck),
                         r.ret.mappos + containersize, validendsize),
               r)

\* An expansion at the end that also takes the room of the last Block when
\* the expansion fills it (the source asks for strictly more room).
ExpandEndInclusive(d, expandsize, pos, luck) ==
    IF expandsize <= _DEQUE_ELEM_COUNT - deque_end(d).corepos
    THEN ExpandEndRoom([d EXCEPT !.finish.corepos = @ + expandsize,
                                 !.g.branch = "room"],
                       deque_end(d), pos)
    ELSE ExpandEndGrow(ExpandEndMap(d, deque_end(d), pos,
                                    ContainerSize(expandsize
                                        - (_DEQUE_ELEM_COUNT - deque_end(d).corepos)),
                                    luck),
                       ContainerSize(expandsize
                           - (_DEQUE_ELEM_COUNT - deque_end(d).corepos)),
                       (expandsize - (_DEQUE_ELEM_COUNT - deque_end(d).corepos))
                           % _DEQUE_ELEM_COUNT, luck)

_expand_at_end(d, expandsize, pos, luck) ==
    LET oldend == deque_end(d)
        remainsize == _DEQUE_ELEM_COUNT - oldend.corepos
        nomemsize == expandsize - remainsize
    IN  IF expandsize < remainsize
        THEN ExpandEndRoom([d EXCEPT !.finish.corepos = @ + expandsize,
                                     !.g.branch = "room"],
                           oldend, pos)
        ELSE ExpandEndGrow(ExpandEndMap(d, oldend, pos,
                                        ContainerSize(nomemsize), luck),
                           ContainerSize(nomemsize),
                           nomemsize % _DEQUE_ELEM_COUNT, luck)

\* The directory part of _expand_at_begin: room for containersize Blocks
\* before the start slot.
ExpandBeginMap(d, oldbegin, pos, containersize, luck) ==
    LET validmapsize      == d.finish.mappos - d.start.mappos + 1
        remainfrontmapsize == SizeT(oldbegin.mappos)
        remainmapsize      == SizeT(d.mapsize - validmapsize)
    IN  IF containersize > remainmapsize
        THEN LET oldmapstartpos == SizeT(d.mapsize - validmapsize) \div 2
                 newsize == d.mapsize + GrowSize(containersize, remainmapsize)
                 newmapstartpos == SizeT(newsize - (validmapsize + containersize)) \div 2
                 newposofoldcontainer == newmapstartpos + containersize
                 posdistance == pos.mappos - d.start.mappos
             IN  [d |-> [d EXCEPT
                          !.map = NewMap(d, newsize, newposofoldcontainer,
                                         oldmapstartpos, validmapsize),
                          !.mapsize = newsize,
                          !.start.mappos = newposofoldcontainer,
                          !.finish.mappos = newposofoldcontainer + validmapsize - 1,
                          !.g.branch = "realloc"],
                  ret |-> [oldbegin EXCEPT !.mappos = newposofoldcontainer],
                  pos |-> [pos EXCEPT
                             !.mappos = newposofoldcontainer + posdistance]]
        ELSE IF containersize > remainfrontmapsize /\ containersize <= remainmapsize
        THEN LET oldstartpossize == SizeT(d.mapsize - validmapsize) \div 2
                 newstartpossize == SizeT(d.mapsize - (validmapsize + containersize)) \div 2
                 newposofoldcontainer == newstartpossize + containersize
                 movesize == newposofoldcontainer - oldstartpossize
             IN  [d |-> [MapMove(d, d.start.mappos + movesize, d.start.mappos,
                                 validmapsize, luck)
                            EXCEPT !.start.mappos = @ + movesize,
                                   !.finish.mappos = @ + movesize,
                                   !.g.branch = "shift"],
                  ret |-> [oldbegin EXCEPT !.mappos = @ + movesize],
                  pos |-> [pos EXCEPT !.mappos = @ + movesize]]
        ELSE [d |-> [d EXCEPT !.g.branch = "attach"], ret |-> oldbegin, pos |-> pos]

\* An iterator whose corepos is its Block's one-past-last boundary, moved to
\* the first slot of the next Block (the end of _expand_at_begin).
NextBlockFirst(d, it) ==
    IF it.corepos = _DEQUE_ELEM_COUNT
    THEN Iter(it.mappos + 1, MapAt(d, it.mappos + 1), 0)
    ELSE it

\* The branch of _expand_at_begin with room in the start Block.
\* The start marker moved one slot further than the expansion asks for.
ExpandBeginRoomFar(d, expandsize, oldbegin, pos) ==
    [d |-> [d EXCEPT !.start.corepos = @ - expandsize - 1, !.g.branch = "room"],
     ret |-> oldbegin, pos |-> pos]

ExpandBeginRoom(d, expandsize, oldbegin, pos) ==
    [d |-> [d EXCEPT !.start.corepos = @ - expandsize, !.g.branch = "room"],
     ret |-> oldbegin, pos |-> pos]

\* The Blocks ids allocated and stored in the slots before the old begin
\* slot, from that slot downwards.
AttachAtBegin(q, ids, containersize, luck) ==
    MapStoreMany(AllocBlocks(q.d, ids),
                 [i \in (q.ret.mappos - containersize) .. (q.ret.mappos - 1) |->
                     ids[(q.ret.mappos - 1) - i]],
                 luck)

\* The new start iterator, read back from directory slot st.
SetStart(d2, st, validfrontsize) ==
    [d2 EXCEPT !.start = Iter(st, MapAt(d2, st),
                              _DEQUE_ELEM_COUNT - validfrontsize)]

\* The branch of _expand_at_begin that needs new Blocks, after the
\* directory made room for them (q).
ExpandBeginGrow(q, containersize, validfrontsize, luck) ==
    [d |-> SetStart(AttachAtBegin(q, FreshBlocks(q.d, containersize),
                                  containersize, luck),
                    q.ret.mappos - containersize, validfrontsize),
     ret |-> q.ret, pos |-> q.pos]

\* The end of _expand_at_begin: the old begin and *pt_pos moved off a
\* Block boundary, the new elements initialized.
InitNewBegin(r) ==
    [d |-> _deque_init_elem_range_auxiliary(r.d, deque_begin(r.d),
                                            NextBlockFirst(r.d, r.ret)),
     ret |-> NextBlockFirst(r.d, r.ret),
     pos |-> NextBlockFirst(r.d, r.pos)]

_expand_at_begin(d, expandsize, pos, luck) ==
    LET oldbegin == deque_begin(d)
        remainsize == oldbegin.corepos
        nomemsize == expandsize - remainsize
    IN  InitNewBegin(
            IF expandsize < remainsize
            THEN ExpandBeginRoom(d, expandsize, oldbegin, pos)
            ELSE ExpandBeginGrow(ExpandBeginMap(d, oldbegin, pos,
                                                ContainerSize(nomemsize), luck),
                                 ContainerSize(nomemsize),
                                 nomemsize % _DEQUE_ELEM_COUNT, luck))

(***************************************************************************)
(* The shrink engine.                                                      *)
(***************************************************************************)
\* The slots set to null without their Blocks being deallocated.
NullSlots(d, slots, luck) ==
    IF slots = {} THEN d ELSE MapStoreMany(d, [i \in slots |-> NULL], luck)

\* for each slot of slots: deallocate(*ppc_map); *ppc_map = NULL.
FreeSlots(d, slots, luck) ==
    LET ptr == [i \in slots |-> MapAt(d, i)]
        bs  == {ptr[i] : i \in slots}
        ok  == bs \subseteq DOMAIN d.blocks /\ Cardinality(bs) = Cardinality(slots)
        d1  == [d EXCEPT !.blocks = [c \in (DOMAIN d.blocks) \ bs |-> d.blocks[c]],
                         !.g.frees = @ + Cardinality(slots),
                         !.fault = @ \/ ~ok]
    IN  IF slots = {} THEN d
        ELSE MapStoreMany(d1, [i \in slots |-> NULL], luck)

Min(a, b) == IF a < b THEN a ELSE b

\* A shrink at the end that keeps the Block of the slot after the new finish
\* slot.
ShrinkEndKeep(d, newend, luck) ==
    FreeSlots([RunRange(DestroyMode(deque_end(d)), d, newend).d
                  EXCEPT !.finish = newend],
              (newend.mappos + 2) .. deque_end(d).mappos, luck)

\* _shrink_at_end once the new end is known: destroy, reset finish, free.
ShrinkEndTo(d, newend, luck) ==
    FreeSlots([RunRange(DestroyMode(deque_end(d)), d, newend).d
                  EXCEPT !.finish = newend],
              (newend.mappos + 1) .. deque_end(d).mappos, luck)

_shrink_at_end(d, shrinksize, luck) ==
    ShrinkEndTo(d, _deque_iterator_prev_n(d, deque_end(d),
                                          Min(shrinksize, deque_size(d))),
                luck)

\* _shrink_at_begin once the new begin is known.
ShrinkBeginTo(d, newbegin, luck) ==
    FreeSlots([RunRange(DestroyMode(newbegin), d, deque_begin(d)).d
                  EXCEPT !.start = newbegin],
              deque_begin(d).mappos .. (newbegin.mappos - 1), luck)

_shrink_at_begin(d, shrinksize, luck) ==
    ShrinkBeginTo(d, _deque_iterator_next_n(d, deque_begin(d),
                                            Min(shrinksize, deque_size(d))),
                  luck)

(***************************************************************************)
(* Destruction.  The three steps of _deque_destroy_auxiliary, each on the  *)
(* result of the one before.                                               *)
(***************************************************************************)
\* The loop that destroys the elements from begin to end.
DestroyElems(d) == RunRange(DestroyMode(deque_end(d)), d, deque_begin(d)).d

\* One iteration of the loop that deallocates the Blocks: the pointer in
\* directory slot s.m.
DestroyBlockBody(s) ==
    [d |-> FreeBlock(s.d, MapAt(s.d, s.m)), m |-> s.m + 1, run |-> TRUE]

RECURSIVE DestroyBlockLoop(_, _)
DestroyBlockLoop(s, k) ==
    IF ~s.run THEN s
    ELSE IF k = 0
    THEN IF s.m <= s.d.finish.mappos THEN DestroyBlockBody(s)
         ELSE [s EXCEPT !.run = FALSE]
    ELSE CHOOSE r \in {DestroyBlockLoop(s4, k - 1) :
                       s4 \in {DestroyBlockLoop(s3, k - 1) :
                       s3 \in {DestroyBlockLoop(s2, k - 1) :
                       s2 \in {DestroyBlockLoop(s, k - 1)}}}} : TRUE

DestroyBlocks(d) ==
    Only({RangeEnded(DestroyBlockLoop(x, LoopDepth)).d :
          x \in {[d |-> d, m |-> d.start.mappos, run |-> TRUE]}})

\* The directory deallocated (its slots can no longer be read) and the two
\* iterators set to null; _ppc_map and _t_mapsize keep their values.
DestroyMap(d) ==
    [d EXCEPT !.map = [i \in {} |-> NULL],
              !.g.mfrees = @ + 1,
              !.start = create_deque_iterator,
              !.finish = create_deque_iterator]

\* Returns [d, elems, blocks]: the deque after the last step and after the
\* first and the second.
DestroySteps(d1, d2) == [d |-> DestroyMap(d2), elems |-> d1, blocks |-> d2]

DestroyFrom(d1) == DestroySteps(d1, DestroyBlocks(d1))

_deque_destroy_auxiliary(d) == DestroyFrom(DestroyElems(d))

\* _deque_iterator_belong_to_deque; the assertion inside it (the cached
\* first of the iterator is the directory slot's Block) failing counts as
\* the iterator not belonging.
_deque_iterator_belong_to_deque(d, it) ==
    LET found == it.mappos >= d.start.mappos /\ it.mappos <= d.finish.mappos
        first == IF found THEN MapAt(d, it.mappos) ELSE NULL
    IN  IF first = NULL THEN FALSE
        ELSE IF first # it.first THEN FALSE
        ELSE IF it.mappos = d.start.mappos
        THEN IF d.start.corepos = _DEQUE_ELEM_COUNT
             THEN it.corepos = _DEQUE_ELEM_COUNT
             ELSE it.corepos >= d.start.corepos /\ it.corepos <= _DEQUE_ELEM_COUNT - 1
        ELSE IF it.mappos = d.finish.mappos
        THEN it.corepos >= 0 /\ it.corepos <= d.finish.corepos
        ELSE it.corepos >= 0 /\ it.corepos <= _DEQUE_ELEM_COUNT - 1

(***************************************************************************)
(* The move engine.  A loop state is [d, t, s]: the deque, the target      *)
(* iterator and the source iterator.                                       *)
(***************************************************************************)
\* The type's copy function from the slot of s to the slot of t.
MoveCopy(d, t, s) ==
    LET src == _deque_iterator_get_pointer_auxiliary(d, s)
        dst == _deque_iterator_get_pointer_auxiliary(d, t)
    IN  [Store(d, dst, Load(d, src)) EXCEPT
            !.g.rd = Append(@, src), !.g.copies = @ + 1, !.g.mcopies = @ + 1,
            !.fault = @ \/ ~ValidAddr(d, src) \/ ~ValidAddr(d, dst)]

\* The two cursors of a move loop after their step: iterator_prev and
\* iterator_next assert that the iterator they return belongs to the deque;
\* g.af records that this assertion fails where assertions are compiled in.
Stepped(d1, t, s) ==
    [d1 EXCEPT !.g.af = \/ @
                        \/ ~_deque_iterator_belong_to_deque(d1, t)
                        \/ ~_deque_iterator_belong_to_deque(d1, s)]

MoveEndCond(tb, b, x) ==
    /\ ~_deque_iterator_less(x.d, x.t, tb)
    /\ ~_deque_iterator_less(x.d, x.s, b)

MoveEndBody(x) ==
    [d |-> Stepped(MoveCopy(x.d, x.t, x.s),
                   _deque_iterator_prev(x.d, x.t),
                   _deque_iterator_prev(x.d, x.s)),
     t |-> _deque_iterator_prev(x.d, x.t),
     s |-> _deque_iterator_prev(x.d, x.s),
     run |-> TRUE]

RECURSIVE MoveEndLoop(_, _, _, _)
MoveEndLoop(tb, b, x, k) ==
    IF ~x.run THEN x
    ELSE IF k = 0
    THEN IF MoveEndCond(tb, b, x) THEN MoveEndBody(x) ELSE [x EXCEPT !.run = FALSE]
    ELSE CHOOSE r \in {MoveEndLoop(tb, b, s4, k - 1) :
                       s4 \in {MoveEndLoop(tb, b, s3, k - 1) :
                       s3 \in {MoveEndLoop(tb, b, s2, k - 1) :
                       s2 \in {MoveEndLoop(tb, b, x, k - 1)}}}} : TRUE

\* A move loop that is still running after 4^LoopDepth iterations has left
\* the deque.
MoveEnded(x, ret) == [d |-> [x.d EXCEPT !.fault = @ \/ x.run], ret |-> ret]

MoveCalled(d) == [d EXCEPT !.g.mcalls = @ + 1]

MoveToEnd(d0, begin, end, movesize) ==
    IF ~_deque_iterator_equal(begin, end) /\ movesize # 0
    THEN Only({MoveEnded(
                   MoveEndLoop(x.tb, x.b,
                               [d |-> x.d,
                                t |-> _deque_iterator_prev(
                                          x.d, _deque_iterator_next_n(x.d, x.e, x.n)),
                                s |-> _deque_iterator_prev(x.d, x.e),
                                run |-> TRUE],
                               LoopDepth),
                   x.b) :
               x \in {[d |-> d0, b |-> begin, e |-> end, n |-> movesize,
                       tb |-> _deque_iterator_next_n(d0, begin, movesize)]}})
    ELSE [d |-> d0, ret |-> begin]

_move_elem_to_end(d, begin, end, movesize) ==
    MoveToEnd(MoveCalled(d), begin, end, movesize)

MoveBeginCond(te, e, x) ==
    /\ _deque_iterator_less(x.d, x.t, te)
    /\ _deque_iterator_less(x.d, x.s, e)

MoveBeginBody(x) ==
    [d |-> Stepped(MoveCopy(x.d, x.t, x.s),
                   _deque_iterator_next(x.d, x.t),
                   _deque_iterator_next(x.d, x.s)),
     t |-> _deque_iterator_next(x.d, x.t),
     s |-> _deque_iterator_next(x.d, x.s),
     run |-> TRUE]

RECURSIVE MoveBeginLoop(_, _, _, _)
MoveBeginLoop(te, e, x, k) ==
    IF ~x.run THEN x
    ELSE IF k = 0
    THEN IF MoveBeginCond(te, e, x) THEN MoveBeginBody(x) ELSE [x EXCEPT !.run = FALSE]
    ELSE CHOOSE r \in {MoveBeginLoop(te, e, s4, k - 1) :
                       s4 \in {MoveBeginLoop(te, e, s3, k - 1) :
                       s3 \in {MoveBeginLoop(te, e, s2, k - 1) :
                       s2 \in {MoveBeginLoop(te, e, x, k - 1)}}}} : TRUE

MoveToBegin(d0, begin, end, movesize, targetend) ==
    IF ~_deque_iterator_equal(begin, end) /\ movesize # 0
    THEN Only({MoveEnded(
                   MoveBeginLoop(x.te, x.e,
                                 [d |-> x.d,
                                  t |-> _deque_iterator_prev_n(x.d, x.b, x.n),
                                  s |-> x.b,
                                  run |-> TRUE],
                                 LoopDepth),
                   x.te) :
               x \in {[d |-> d0, b |-> begin, e |-> end, n |-> movesize,
                       te |-> targetend]}})
    ELSE [d |-> d0, ret |-> targetend]

_move_elem_to_begin(d, begin, end, movesize) ==
    MoveToBegin(MoveCalled(d), begin, end, movesize,
                _deque_iterator_prev_n(d, end, movesize))

(***************************************************************************)
(* The facade.  An operation that returns an iterator returns [d, ret].    *)
(***************************************************************************)
\* _type_get_varg_value(&typeinfo, val_elemlist, p): the argument stored at p.
PutValue(d, a, v) == Store(d, a, v)

PushBackPut(r, v) ==
    PutValue(r.d, _deque_iterator_get_pointer_auxiliary(r.d, r.ret), v)

_deque_push_back_varg(d, v, luck) ==
    PushBackPut(_expand_at_end(d, 1, create_deque_iterator, luck), v)

deque_pop_back(d, luck) == _shrink_at_end(d, 1, luck)

PushFrontPut(r, v) ==
    PutValue(r.d, _deque_iterator_get_pointer_auxiliary(r.d, deque_begin(r.d)), v)

_deque_push_front_varg(d, v, luck) ==
    PushFrontPut(_expand_at_begin(d, 1, create_deque_iterator, luck), v)

deque_pop_front(d, luck) == _shrink_at_begin(d, 1, luck)

\* deque_pop_back and deque_pop_front with their assertion: it is compiled
\* in the build "debug" and compiled out (NDEBUG) in the build "release".
\* Returns [d, ret]; ret = "assert" when the assertion ended the process.
Builds == {"debug", "release"}

PopBackBuild(d, build, luck) ==
    IF build = "debug" /\ ~(deque_size(d) > 0)
    THEN [d |-> d, ret |-> "assert"]
    ELSE [d |-> deque_pop_back(d, luck), ret |-> "done"]

PopFrontBuild(d, build, luck) ==
    IF build = "debug" /\ ~(deque_size(d) > 0)
    THEN [d |-> d, ret |-> "assert"]
    ELSE [d |-> deque_pop_front(d, luck), ret |-> "done"]

\* (int)x / 2 of C: the quotient truncated towards zero.
CDiv2(x) == IF x >= 0 THEN x \div 2 ELSE 0 - ((0 - x) \div 2)

\* The test of the inserts taking every position but the end for the front.
InsertInFrontUnlessEnd(d, pos) ==
    iterator_distance(d, deque_begin(d), pos) < deque_size(d)

\* The test both inserts make: is pos in the front half?
InsertInFront(d, pos) ==
    iterator_distance(d, deque_begin(d), pos) < CDiv2(deque_size(d))

\* The front branch of _deque_insert_n after the expansion (e): move, fill.
InsertFrontFill(e, m, v) ==
    [d |-> [RunRange(FillMode(e.pos, v), m.d, m.ret).d EXCEPT !.g.side = "front"],
     ret |-> m.ret]

InsertFrontMove(e, count, v) ==
    InsertFrontFill(e, _move_elem_to_begin(e.d, e.ret, e.pos, count), v)

\* The back branch of _deque_insert_n after the expansion (e): move, fill.
InsertBackFill(e, m, count, v) ==
    [d |-> [RunRange(FillCountMode(count, v), m.d, e.pos).d
               EXCEPT !.g.side = "back"],
     ret |-> m.ret]

InsertBackMove(e, count, v) ==
    InsertBackFill(e, _move_elem_to_end(e.d, e.pos, e.ret, count), count, v)

_deque_insert_n_varg(d, pos, count, v, luck) ==
    IF InsertInFront(d, pos)
    THEN InsertFrontMove(_expand_at_begin(d, count, pos, luck), count, v)
    ELSE InsertBackMove(_expand_at_end(d, count, pos, luck), count, v)

\* deque_insert_range(pt_deque, t_pos, t_begin, t_end); src is the sequence
\* of the elements the source range yields.
RangeFrontCopy(e, m, src) ==
    [RunRange(CopyMode(e.pos, src), m.d, m.ret).d EXCEPT !.g.side = "front"]

RangeFrontMove(e, src) ==
    RangeFrontCopy(e, _move_elem_to_begin(e.d, e.ret, e.pos, Len(src)), src)

RangeBackCopy(e, m, src) ==
    [RunRange(CopyCountMode(src), m.d, e.pos).d EXCEPT !.g.side = "back"]

RangeBackMove(e, src) ==
    RangeBackCopy(e, _move_elem_to_end(e.d, e.pos, e.ret, Len(src)), src)

deque_insert_range(d, pos, src, luck) ==
    IF InsertInFront(d, pos)
    THEN RangeFrontMove(_expand_at_begin(d, Len(src), pos, luck), src)
    ELSE RangeBackMove(_expand_at_end(d, Len(src), pos, luck), src)

PopFrontRet(d1) == [d |-> d1, ret |-> deque_begin(d1)]

PopBackRet(d1) == [d |-> d1, ret |-> deque_end(d1)]

EraseMiddle(m, pos, luck) == [d |-> _shrink_at_end(m.d, 1, luck), ret |-> pos]

deque_erase(d, pos, luck) ==
    IF _deque_iterator_equal(pos, deque_begin(d))
    THEN PopFrontRet(deque_pop_front(d, luck))
    ELSE IF _deque_iterator_equal(pos, _deque_iterator_prev(d, deque_end(d)))
    THEN PopBackRet(deque_pop_back(d, luck))
    ELSE EraseMiddle(_move_elem_to_begin(d, _deque_iterator_next(d, pos),
                                         deque_end(d), 1),
                     pos, luck)

\* deque_erase_range(pt_deque, t_begin, t_end): the elements from t_end on
\* moved back over the range, the deque shrunk by the length of the range.
EraseRangeShrink(m, begin, end, luck) ==
    [d |-> _shrink_at_end(m.d, iterator_distance(m.d, begin, end), luck),
     ret |-> begin]

deque_erase_range(d, begin, end, luck) ==
    EraseRangeShrink(_move_elem_to_begin(d, end, deque_end(d),
                                         iterator_distance(d, begin, end)),
                     begin, end, luck)

deque_clear(d, luck) ==
    deque_erase_range(d, deque_begin(d), deque_end(d), luck).d

deque_resize(d, resize, luck) ==
    IF resize < deque_size(d)
    THEN _shrink_at_end(d, deque_size(d) - resize, luck)
    ELSE IF resize > deque_size(d)
    THEN _expand_at_end(d, resize - deque_size(d), create_deque_iterator, luck).d
    ELSE d

\* deque_at: the address of element t_pos.
deque_at(d, i) ==
    _deque_iterator_get_pointer_auxiliary(
        d, _deque_iterator_next_n(d, deque_begin(d), i))

\* The null pointer as an element address.
NullAddr == <<NULL, 0>>

deque_front(d) == IF deque_empty(d) THEN NullAddr ELSE deque_at(d, 0)

deque_back(d) ==
    IF deque_empty(d) THEN NullAddr ELSE deque_at(d, deque_size(d) - 1)

\* _deque_iterator_at: the address n_index elements after t_iter (not a
\* string element: the corepos of the advanced iterator).
CorePos(t) == <<t.first, t.corepos>>

_deque_iterator_at(d, it, i) == CorePos(_deque_iterator_next_n(d, it, i))

(***************************************************************************)
(* What a client sees: the elements read on the walk from begin to end.    *)
(***************************************************************************)
ElemsCond(d, x) == ~_deque_iterator_equal(x.it, deque_end(d))

ElemsBody(d, x) ==
    [it  |-> _deque_iterator_next(d, x.it),
     out |-> Append(x.out, _deque_iterator_get_pointer_auxiliary(d, x.it)),
     run |-> TRUE]

RECURSIVE ElemsLoop(_, _, _)
ElemsLoop(d, x, k) ==
    IF ~x.run THEN x
    ELSE IF k = 0
    THEN IF ElemsCond(d, x) THEN ElemsBody(d, x) ELSE [x EXCEPT !.run = FALSE]
    ELSE CHOOSE r \in {ElemsLoop(d, s4, k - 1) :
                       s4 \in {ElemsLoop(d, s3, k - 1) :
                       s3 \in {ElemsLoop(d, s2, k - 1) :
                       s2 \in {ElemsLoop(d, x, k - 1)}}}} : TRUE

Walk(d) ==
    Only({ElemsLoop(x.d, [it |-> deque_begin(x.d), out |-> <<>>, run |-> TRUE],
                    LoopDepth) :
          x \in {[d |-> d]}})

\* The addresses the walk visits, and the values read there.
Addresses(d) == Walk(d).out

Loads(d, a) == [k \in 1 .. Len(a) |-> Load(d, a[k])]

Elements(d) == Loads(d, Addresses(d))

\* The number of iterator_next steps from begin to end; -1 when the walk
\* does not meet the end iterator.
StepsOf(w) == IF w.run THEN 0 - 1 ELSE Len(w.out)

WalkSteps(d) == StepsOf(Walk(d))

(***************************************************************************)
(* Operations on two deques.  A comparison returns [ret, fault]: its       *)
(* result, and whether it read through a pointer that addresses no Block.  *)
(***************************************************************************)
\* The less function of the element type (int).
TypeLess(x, y) == x < y

\* The walk of a source range [b, e) of the deque o: the values read.
SrcCond(e, x) == ~_deque_iterator_equal(x.it, e)

SrcBody(o, x) ==
    [it  |-> _deque_iterator_next(o, x.it),
     out |-> Append(x.out, Load(o, _deque_iterator_get_pointer_auxiliary(o, x.it))),
     bad |-> x.bad \/ ~ValidAddr(o, _deque_iterator_get_pointer_auxiliary(o, x.it)),
     run |-> TRUE]

RECURSIVE SrcLoop(_, _, _, _)
SrcLoop(o, e, x, k) ==
    IF ~x.run THEN x
    ELSE IF k = 0
    THEN IF SrcCond(e, x) THEN SrcBody(o, x) ELSE [x EXCEPT !.run = FALSE]
    ELSE CHOOSE r \in {SrcLoop(o, e, s4, k - 1) :
                       s4 \in {SrcLoop(o, e, s3, k - 1) :
                       s3 \in {SrcLoop(o, e, s2, k - 1) :
                       s2 \in {SrcLoop(o, e, x, k - 1)}}}} : TRUE

SourceWalk(o, b, e) ==
    Only({SrcLoop(x.o, x.e, [it |-> x.b, out |-> <<>>, bad |-> FALSE, run |-> TRUE],
                  LoopDepth) :
          x \in {[o |-> o, b |-> b, e |-> e]}})

\* The copy loop of deque_assign_range; a source that cannot be read ends
\* the run.
AssignElems(d1, w) ==
    [RunRange(CopyMode(d1.finish, w.out), d1, d1.start).d
        EXCEPT !.fault = @ \/ w.bad \/ w.run]

\* deque_assign_range(pt_deque, t_begin, t_end), the range being one of the
\* deque o.
deque_assign_range(d, o, b, e, luck) ==
    AssignElems(deque_resize(d, iterator_distance(o, b, e), luck),
                SourceWalk(o, b, e))

deque_assign(d, o, luck) ==
    deque_assign_range(d, o, deque_begin(o), deque_end(o), luck)

\* deque_init_copy(dest, src): deque_init_n of the distance, then the copy
\* loop over the source range (w).
InitCopyElems(d1, w) ==
    [CopyElems(d1, w.out) EXCEPT !.fault = @ \/ w.bad \/ w.run]

deque_init_copy(o) ==
    InitCopyElems(deque_init_n(iterator_distance(o, deque_begin(o), deque_end(o))),
                  SourceWalk(o, deque_begin(o), deque_end(o)))

\* The loops of deque_equal and deque_less: a state is [f, s, hit, ret, bad,
\* run], the iterators into the first and the second deque, whether the
\* function returned from inside the loop, and the value it returned.
PairCond(a, b, x) ==
    /\ ~_deque_iterator_equal(x.f, deque_end(a))
    /\ ~_deque_iterator_equal(x.s, deque_end(b))

PairNext(a, b, x) ==
    [x EXCEPT !.f = _deque_iterator_next(a, x.f),
              !.s = _deque_iterator_next(b, x.s)]

\* The values the two iterators address, [l, r, bad].
PairRead(a, b, x) ==
    [l |-> Load(a, _deque_iterator_get_pointer_auxiliary(a, x.f)),
     r |-> Load(b, _deque_iterator_get_pointer_auxiliary(b, x.s)),
     bad |-> \/ ~ValidAddr(a, _deque_iterator_get_pointer_auxiliary(a, x.f))
             \/ ~ValidAddr(b, _deque_iterator_get_pointer_auxiliary(b, x.s))]

\* The element test of deque_equal without its greater half.
EqualElemOneWay(x, y, v) ==
    IF TypeLess(v.l, v.r)
    THEN [x EXCEPT !.hit = TRUE, !.ret = FALSE, !.bad = @ \/ v.bad, !.run = FALSE]
    ELSE [y EXCEPT !.bad = @ \/ v.bad]

\* One iteration of deque_equal on the values v read: return false (x), or
\* go on with the advanced iterators (y).
EqualElem(x, y, v) ==
    IF TypeLess(v.l, v.r) \/ TypeLess(v.r, v.l)
    THEN [x EXCEPT !.hit = TRUE, !.ret = FALSE, !.bad = @ \/ v.bad, !.run = FALSE]
    ELSE [y EXCEPT !.bad = @ \/ v.bad]

EqualBody(a, b, x) == EqualElem(x, PairNext(a, b, x), PairRead(a, b, x))

RECURSIVE EqualLoop(_, _, _, _)
EqualLoop(a, b, x, k) ==
    IF ~x.run THEN x
    ELSE IF k = 0
    THEN IF PairCond(a, b, x) THEN EqualBody(a, b, x) ELSE [x EXCEPT !.run = FALSE]
    ELSE CHOOSE r \in {EqualLoop(a, b, s4, k - 1) :
                       s4 \in {EqualLoop(a, b, s3, k - 1) :
                       s3 \in {EqualLoop(a, b, s2, k - 1) :
                       s2 \in {EqualLoop(a, b, x, k - 1)}}}} : TRUE

PairStart(a, b) ==
    [f |-> deque_begin(a), s |-> deque_begin(b), hit |-> FALSE, ret |-> FALSE,
     bad |-> FALSE, run |-> TRUE]

EqualEnd(x) ==
    [ret |-> IF x.hit THEN x.ret ELSE TRUE, fault |-> x.bad \/ x.run]

deque_equal(a, b) ==
    IF deque_size(a) # deque_size(b)
    THEN [ret |-> FALSE, fault |-> FALSE]
    ELSE Only({EqualEnd(EqualLoop(x.a, x.b, PairStart(x.a, x.b), LoopDepth)) :
               x \in {[a |-> a, b |-> b]}})

deque_not_equal(a, b) == [deque_equal(a, b) EXCEPT !.ret = ~@]

LessElem(x, y, v) ==
    IF TypeLess(v.l, v.r)
    THEN [x EXCEPT !.hit = TRUE, !.ret = TRUE, !.bad = @ \/ v.bad, !.run = FALSE]
    ELSE IF TypeLess(v.r, v.l)
    THEN [x EXCEPT !.hit = TRUE, !.ret = FALSE, !.bad = @ \/ v.bad, !.run = FALSE]
    ELSE [y EXCEPT !.bad = @ \/ v.bad]

LessPairBody(a, b, x) == LessElem(x, PairNext(a, b, x), PairRead(a, b, x))

RECURSIVE LessPairLoop(_, _, _, _)
LessPairLoop(a, b, x, k) ==
    IF ~x.run THEN x
    ELSE IF k = 0
    THEN IF PairCond(a, b, x) THEN LessPairBody(a, b, x) ELSE [x EXCEPT !.run = FALSE]
    ELSE CHOOSE r \in {LessPairLoop(a, b, s4, k - 1) :
                       s4 \in {LessPairLoop(a, b, s3, k - 1) :
                       s3 \in {LessPairLoop(a, b, s2, k - 1) :
                       s2 \in {LessPairLoop(a, b, x, k - 1)}}}} : TRUE

\* The end of deque_less without the comparison of the sizes.
LessEndNoSize(a, b, x) ==
    [ret |-> IF x.hit THEN x.ret ELSE FALSE, fault |-> x.bad \/ x.run]

\* The value deque_less returns: the one from inside its loop, or after the
\* loop whether the first deque is the shorter.
LessEnd(a, b, x) ==
    [ret |-> IF x.hit THEN x.ret ELSE deque_size(a) < deque_size(b),
     fault |-> x.bad \/ x.run]

deque_less(a, b) ==
    Only({LessEnd(x.a, x.b, LessPairLoop(x.a, x.b, PairStart(x.a, x.b), LoopDepth)) :
          x \in {[a |-> a, b |-> b]}})

\* deque_swap: the two structures exchanged (the container references in
\* their iterators with them), then the container references set.  Returns
\* [first, second, owner].
SwapOwner(own) == [d |-> own.other, other |-> own.d]

\* deque_swap without the lines that set the container references.
KeepOwner(own) == own

\* The container references after lines 1064-1068: each deque's own.
SetOwner(own) ==
    [d |-> [start |-> "d", finish |-> "d"],
     other |-> [start |-> "other", finish |-> "other"]]

deque_swap(a, b, own) ==
    [first |-> b, second |-> a, owner |-> SetOwner(SwapOwner(own))]

(***************************************************************************)
(* The reference list: what the operations do to an ideal sequence.        *)
(***************************************************************************)
Take(s, i) == SubSeq(s, 1, Min(IF i < 0 THEN 0 ELSE i, Len(s)))
Drop(s, i) == SubSeq(s, Min(IF i < 0 THEN 0 ELSE i, Len(s)) + 1, Len(s))
Copies(n, v) == [k \in 1 .. n |-> v]
RefInsert(s, i, src) == Take(s, i) \o src \o Drop(s, i)
RefErase(s, i) == Take(s, i) \o Drop(s, i + 1)
RefResize(s, n) ==
    IF n < Len(s) THEN Take(s, n) ELSE s \o Copies(n - Len(s), DefaultValue)

(***************************************************************************)
(* The state: the deque d, the reference list ref, the record last of the  *)
(* operation that produced d (its arguments, the iterator it returned and  *)
(* the deque it ran on), the record prev of the operation before it, the   *)
(* number work of small operations done and the number grown of big        *)
(* inserts done.  The operations on two deques run on d and on the second  *)
(* deque other; owner holds, for the start and finish iterator stored in   *)
(* each of the two, the deque its container reference names.               *)
(***************************************************************************)
VARIABLES d, ref, last, prev, work, grown, other, owner

vars == <<d, ref, last, prev, work, grown, other, owner>>

\* Bounds of the exploration.
MaxWork == 2
MaxBig == 2
MaxBigSeed == 2
MaxEdge == 1
MaxMid == 40
MaxSeed == 3
MaxPlain == 1
MaxRun == 130
MaxMixed == 2

\* Sizes at construction: the small ones, one short of a Block, and more
\* than a Block.
SeedSizes == (0 .. MaxSeed) \cup {_DEQUE_ELEM_COUNT - 1, _DEQUE_ELEM_COUNT + 1}
Values == {7}
Counts == {0, 1, _DEQUE_ELEM_COUNT + 1}
\* The count that fills the directory of a small deque up to its last slot,
\* and a count that outgrows the directory.
FillCount == _DEQUE_ELEM_COUNT * (_DEQUE_MAP_COUNT \div 2) - 1
OutgrowCount == _DEQUE_ELEM_COUNT * _DEQUE_MAP_COUNT - 6
RangeLens == {0, 2}
Source(n) == [k \in 1 .. n |-> 20 + k]
Lucks == {"kept", "lost"}

Clamp(n) == IF n < 0 THEN 0 ELSE n
Positions(n) ==
    {i \in 0 .. Clamp(n) : \/ i = 0
                           \/ i = n
                           \/ n <= MaxMid /\ (i <= MaxEdge \/ i >= n - MaxEdge)
                           \/ n <= MaxMid /\ (i = n \div 2 \/ i = n \div 2 - 1)}

NoIter == Iter(0 - 1, NULL, 0)
Fresh == [d EXCEPT !.g = NoTrace]
Op(name, i, n, v, pos, ret) ==
    [op |-> name, i |-> i, n |-> n, v |-> v, pos |-> pos, ret |-> ret,
     pre |-> Elements(d), pred |-> Fresh]
Short(l) == [op |-> l.op, i |-> l.i, n |-> l.n, v |-> l.v, pos |-> l.pos,
             ret |-> l.ret, pre |-> l.pre]
At(i) == _deque_iterator_next_n(d, deque_begin(d), i)

\* An outcome of undefined behaviour exists only where it happened.
LuckOK(x, luck) == luck = "kept" \/ x.g.oob

\* A small operation may run while the process lives and the budget lasts;
\* after a big insert one small operation is explored, and a second one when
\* the first stored outside the directory.
Budget == /\ ~d.fault
          /\ work < MaxWork
          /\ (grown = 0 \/ work = 0 \/ d.smashed)

Step(d1, ref1, l, big) ==
    /\ d' = d1
    /\ ref' = ref1
    /\ last' = l
    /\ prev' = Short(last)
    /\ work' = work + (1 - big)
    /\ grown' = grown + big
    /\ UNCHANGED <<other, owner>>

\* The step of an operation that left the deque d1, under the outcome luck.
Commit(d1, luck, ref1, l, big) == LuckOK(d1, luck) /\ Step(d1, ref1, l, big)

\* The same for an operation that returned [d, ret].
CommitRet(r, luck, ref1, name, i, n, v, pos, big) ==
    Commit(r.d, luck, ref1, Op(name, i, n, v, pos, r.ret), big)

Construct(c, n) ==
    CASE c = "init_n" -> deque_init_n(n)
      [] OTHER -> deque_init_copy_range([k \in 1 .. n |-> 10 + k])

ConstructRef(c, n) ==
    CASE c = "init_n" -> Copies(n, DefaultValue)
      [] OTHER -> [k \in 1 .. n |-> 10 + k]

\* The container references deque_init_n stores in the two iterators of each
\* deque.
OwnInit == [d |-> [start |-> "d", finish |-> "d"],
            other |-> [start |-> "other", finish |-> "other"]]

NoOp(name, n) ==
    [op |-> name, i |-> 0, n |-> n, v |-> 0, pos |-> NoIter, ret |-> NoIter,
     pre |-> <<>>]

Start(c, n) ==
    /\ d = Construct(c, n)
    /\ ref = ConstructRef(c, n)
    /\ last = [NoOp("init", n) EXCEPT !.op = c] @@ [pred |-> Construct(c, n)]
    /\ prev = NoOp("none", 0)
    /\ work = 0
    /\ grown = 0
    /\ other = deque_init
    /\ owner = OwnInit

Init ==
    \/ \E n \in SeedSizes : Start("init_copy_range", n)
    \/ \E n \in 1 .. MaxPlain : Start("init_n", n)

PushBackOp(ok) ==
    /\ ok
    /\ \E v \in Values, luck \in Lucks :
        Commit(_deque_push_back_varg(Fresh, v, luck), luck, Append(ref, v),
               Op("push_back", Len(ref), 1, v, NoIter, NoIter), 0)

PushFrontOp(ok) ==
    /\ ok
    /\ \E v \in Values, luck \in Lucks :
        Commit(_deque_push_front_varg(Fresh, v, luck), luck, <<v>> \o ref,
               Op("push_front", 0, 1, v, NoIter, NoIter), 0)

PopBackOp(ok) ==
    /\ ok
    /\ deque_size(d) > 0
    /\ \E luck \in Lucks :
        Commit(deque_pop_back(Fresh, luck), luck, Take(ref, Len(ref) - 1),
               Op("pop_back", Len(ref) - 1, 1, 0, NoIter, NoIter), 0)

PopFrontOp(ok) ==
    /\ ok
    /\ deque_size(d) > 0
    /\ \E luck \in Lucks :
        Commit(deque_pop_front(Fresh, luck), luck, Drop(ref, 1),
               Op("pop_front", 0, 1, 0, NoIter, NoIter), 0)

PushBack == PushBackOp(Budget)
PushFront == PushFrontOp(Budget)
PopBack == PopBackOp(Budget)
PopFront == PopFrontOp(Budget)

\* The counts of a small insert, and of a big one at index i: a big insert
\* comes before every small operation of a run and at either end; the first
\* goes into a deque of at most MaxBigSeed elements, a second one follows a
\* first that filled the directory and outgrows it.
SmallCounts == IF deque_size(d) <= MaxMid THEN Counts ELSE {0, 1, 2}
BigInsertCounts(i) ==
    IF work = 0 /\ grown < MaxBig /\ (i = 0 \/ i = deque_size(d))
    THEN IF grown = 0
         THEN IF deque_size(d) <= MaxBigSeed THEN {FillCount, OutgrowCount}
              ELSE {}
         ELSE IF deque_size(d) < OutgrowCount THEN {OutgrowCount} ELSE {}
    ELSE {}

InsertN ==
    /\ Budget
    /\ \E i \in Positions(deque_size(d)), v \in Values, luck \in Lucks :
        \E n \in SmallCounts \cup BigInsertCounts(i) :
            CommitRet(_deque_insert_n_varg(Fresh, At(i), n, v, luck), luck,
                      RefInsert(ref, i, Copies(n, v)),
                      "insert_n", i, n, v, At(i),
                      IF n \in SmallCounts THEN 0 ELSE 1)

InsertRange ==
    /\ Budget
    /\ \E i \in Positions(deque_size(d)), n \in RangeLens, luck \in Lucks :
        Commit(deque_insert_range(Fresh, At(i), Source(n), luck), luck,
               RefInsert(ref, i, Source(n)),
               Op("insert_range", i, n, 0, At(i), NoIter), 0)

\* deque_erase at an index, or at the iterator the last insert returned.
\* A run may end with one more erase, of the one element the insert before
\* it put in.
Inserted == last.op = "insert_n" /\ last.n = 1
ErasePositions ==
    IF Budget
    THEN {At(i) : i \in {j \in Positions(deque_size(d)) \cup {deque_size(d) - 1} :
                             j >= 0 /\ j < deque_size(d)}}
            \cup (IF Inserted THEN {last.ret} ELSE {})
    ELSE IF ~d.fault /\ Inserted THEN {last.ret}
    ELSE {}

EraseAt(pos, i, luck) ==
    CommitRet(deque_erase(Fresh, pos, luck), luck, RefErase(ref, i),
              "erase", i, 1, 0, pos, 0)

Erase ==
    \E pos \in ErasePositions, luck \in Lucks :
        EraseAt(pos, iterator_distance(d, deque_begin(d), pos), luck)

Next ==
    \/ PushBack
    \/ PushFront
    \/ PopBack
    \/ PopFront
    \/ InsertN
    \/ InsertRange
    \/ Erase

Spec == Init /\ [][Next]_vars

(***************************************************************************)
(* Runs of pushes and pops on an empty deque: any of the four operations   *)
(* for the first MaxMixed steps, push_back from then on.                   *)
(***************************************************************************)
InitEmpty == Start("init_n", 0)

RunPushBack == PushBackOp(~d.fault /\ work < MaxRun)
RunPushFront == PushFrontOp(~d.fault /\ work < MaxMixed)
RunPopBack == PopBackOp(~d.fault /\ work < MaxMixed)
RunPopFront == PopFrontOp(~d.fault /\ work < MaxMixed)

NextPush ==
    \/ RunPushBack
    \/ RunPushFront
    \/ RunPopBack
    \/ RunPopFront

SpecPush == InitEmpty /\ [][NextPush]_vars

(***************************************************************************)
(* Erases: deque_erase at every probed index, deque_erase_range on every   *)
(* pair of probed indices and deque_clear, on the constructed deques and   *)
(* on those a big insert and a push_back have grown.                       *)
(***************************************************************************)
\* The indices probed: those of Positions and the last two.
EdgePositions(n) ==
    {i \in Positions(n) \cup {n - 2, n - 1} : i >= 0 /\ i <= n}

GrowN ==
    /\ Budget
    /\ \E i \in {0, deque_size(d)}, v \in Values, luck \in Lucks :
        \E n \in BigInsertCounts(i) :
            CommitRet(_deque_insert_n_varg(Fresh, At(i), n, v, luck), luck,
                      RefInsert(ref, i, Copies(n, v)),
                      "insert_n", i, n, v, At(i), 1)

EraseIndex ==
    /\ Budget
    /\ \E i \in EdgePositions(deque_size(d)) \ {deque_size(d)}, luck \in Lucks :
        EraseAt(At(i), i, luck)

EraseRange ==
    /\ Budget
    /\ \E i \in EdgePositions(deque_size(d)), luck \in Lucks :
        \E j \in {k \in EdgePositions(deque_size(d)) : k >= i} :
            CommitRet(deque_erase_range(Fresh, At(i), At(j), luck), luck,
                      Take(ref, i) \o Drop(ref, j),
                      "erase_range", i, j - i, 0, At(i), 0)

Clear ==
    /\ Budget
    /\ \E luck \in Lucks :
        Commit(deque_clear(Fresh, luck), luck, <<>>,
               Op("clear", 0, deque_size(d), 0, NoIter, NoIter), 0)

NextErase ==
    \/ GrowN
    \/ PushBack
    \/ EraseIndex
    \/ EraseRange
    \/ Clear

SpecErase == Init /\ [][NextErase]_vars

(***************************************************************************)
(* Resizes and cycles.  A run does up to MaxResize resizes to the sizes of *)
(* ResizeTargets and then cycles: k expansions at one end (push_back,      *)
(* push_front, or one deque_resize by k) followed by k shrinks at that end *)
(* (pop_back, pop_front, or the deque_resize back), and the same cycle     *)
(* again.  In these runs prev is the record of the cycle: its end (op),    *)
(* its length (i), the expansions (n) and shrinks (v) done, the elements   *)
(* (pre) and the allocated Blocks (blk) when it began, and the number of   *)
(* Blocks allocated when the first cycle began (top); grown counts the     *)
(* cycles completed.                                                       *)
(***************************************************************************)
MaxResize == 2
MaxCycles == 2
BlockPlusOne == _DEQUE_ELEM_COUNT + 1
CycleLens == {1, BlockPlusOne}
ResizeTargets == {0, 3, 20, FillCount, FillCount + 1}
Ends == {"back", "front", "resize"}

Allocated(x) == DOMAIN x.blocks

NewMark(e, k, n) ==
    [NoOp(e, n) EXCEPT !.i = k, !.pre = Elements(d)]
        @@ [blk |-> Allocated(d),
            top |-> IF prev.op = "none" THEN Cardinality(Allocated(d))
                    ELSE prev.top]

Expanding(e) == prev.op = e /\ prev.n < prev.i
Shrinking(e) == prev.op = e /\ prev.n = prev.i /\ prev.v < prev.i
Completed(e) == prev.op = e /\ prev.v = prev.i

\* The lengths of a cycle that may begin at end e: any after the resizes,
\* the same again after a completed cycle.
NewLens(e) ==
    IF prev.op = "none" THEN CycleLens
    ELSE IF Completed(e) /\ grown < MaxCycles THEN {prev.i}
    ELSE {}

\* The cycle records after one more expansion at end e.
ExpandMarks(e) ==
    {NewMark(e, k, 1) : k \in NewLens(e)}
        \cup (IF Expanding(e) THEN {[prev EXCEPT !.n = @ + 1]} ELSE {})

CycleStep(d1, luck, ref1, l, mark) ==
    /\ LuckOK(d1, luck)
    /\ d' = d1
    /\ ref' = ref1
    /\ last' = l
    /\ prev' = mark
    /\ work' = work + 1
    /\ grown' = grown + (IF mark.op \in Ends /\ mark.v = mark.i THEN 1 ELSE 0)
    /\ UNCHANGED <<other, owner>>

Resize ==
    /\ ~d.fault
    /\ prev.op = "none"
    /\ work < MaxResize
    /\ \E n \in ResizeTargets, luck \in Lucks :
        CycleStep(deque_resize(Fresh, n, luck), luck, RefResize(ref, n),
                  Op("resize", deque_size(d), n, 0, NoIter, NoIter), prev)

CyclePushBack ==
    /\ ~d.fault
    /\ \E m \in ExpandMarks("back"), v \in Values, luck \in Lucks :
        CycleStep(_deque_push_back_varg(Fresh, v, luck), luck, Append(ref, v),
                  Op("push_back", Len(ref), 1, v, NoIter, NoIter), m)

CyclePopBack ==
    /\ ~d.fault
    /\ Shrinking("back")
    /\ \E luck \in Lucks :
        CycleStep(deque_pop_back(Fresh, luck), luck, Take(ref, Len(ref) - 1),
                  Op("pop_back", Len(ref) - 1, 1, 0, NoIter, NoIter),
                  [prev EXCEPT !.v = @ + 1])

CyclePushFront ==
    /\ ~d.fault
    /\ \E m \in ExpandMarks("front"), v \in Values, luck \in Lucks :
        CycleStep(_deque_push_front_varg(Fresh, v, luck), luck, <<v>> \o ref,
                  Op("push_front", 0, 1, v, NoIter, NoIter), m)

CyclePopFront ==
    /\ ~d.fault
    /\ Shrinking("front")
    /\ \E luck \in Lucks :
        CycleStep(deque_pop_front(Fresh, luck), luck, Drop(ref, 1),
                  Op("pop_front", 0, 1, 0, NoIter, NoIter),
                  [prev EXCEPT !.v = @ + 1])

CycleResizeUp ==
    /\ ~d.fault
    /\ \E k \in NewLens("resize"), luck \in Lucks :
        CycleStep(deque_resize(Fresh, deque_size(d) + k, luck), luck,
                  RefResize(ref, Len(ref) + k),
                  Op("resize", deque_size(d), deque_size(d) + k, 0, NoIter, NoIter),
                  NewMark("resize", k, k))

CycleResizeDown ==
    /\ ~d.fault
    /\ Shrinking("resize")
    /\ \E luck \in Lucks :
        CycleStep(deque_resize(Fresh, deque_size(d) - prev.i, luck), luck,
                  RefResize(ref, Len(ref) - prev.i),
                  Op("resize", deque_size(d), deque_size(d) - prev.i, 0,
                     NoIter, NoIter),
                  [prev EXCEPT !.v = prev.i])

NextResize ==
    \/ Resize
    \/ CyclePushBack
    \/ CyclePopBack
    \/ CyclePushFront
    \/ CyclePopFront
    \/ CycleResizeUp
    \/ CycleResizeDown

SpecResize == Init /\ [][NextResize]_vars

(***************************************************************************)
(* What the claims speak of.                                               *)
(***************************************************************************)
InsertOps == {"insert_n", "insert_range"}

\* The elements the last insert put in.
InsertedSeq(l) == IF l.op = "insert_n" THEN Copies(l.n, l.v) ELSE Source(l.n)

\* The indices a claim about "every i" is probed at.
Probes(n) == {i \in Positions(n) \cup {n - 1} : i >= 0 /\ i < n}

\* The addresses of the elements before index i, and from index i on.
FrontAddrs(a, i) == {a[k] : k \in 1 .. Min(Clamp(i), Len(a))}
BackAddrs(a, i) == {a[k] : k \in (Clamp(i) + 1) .. Len(a)}
Range(q) == {q[k] : k \in 1 .. Len(q)}

\* C1: from deque_init, after every step of a run of push_back, push_front,
\* pop_back and pop_front the elements read from begin to end are those of
\* the reference list (and the run has not ended in an invalid access).
C1_PushPopRefines == ~d.fault /\ Elements(d) = ref

\* C2: an insert of c copies of v (or of a source range) at index i of a
\* deque holding S leaves S[0..i), the inserted elements, S[i..|S|), and the
\* size |S| + c.
C2_InsertContents ==
    last.op \in InsertOps =>
        /\ ~d.fault
        /\ Elements(d) = RefInsert(last.pre, last.i, InsertedSeq(last))
        /\ deque_size(d) = Len(last.pre) + last.n

\* C3: inserting one value and erasing at the iterator the insert returned
\* gives back the element sequence and the size from before the insert.
RoundTrip ==
    /\ last.op = "erase"
    /\ prev.op = "insert_n"
    /\ prev.n = 1
    /\ last.pos = prev.ret

C3_RoundTrip ==
    RoundTrip => /\ ~d.fault
                 /\ Elements(d) = prev.pre
                 /\ deque_size(d) = Len(prev.pre)

\* C4: in every state of a living run deque_size is the number of
\* iterator_next steps from begin to end, and deque_empty holds exactly when
\* that number is 0.
C4_SizeIsWalk ==
    ~d.fault => /\ deque_size(d) = WalkSteps(d)
                /\ (deque_empty(d) <=> WalkSteps(d) = 0)

C4_Witness ==
    /\ ~d.fault
    /\ d.g.branch = "realloc"
    /\ d.start.corepos # _DEQUE_ELEM_COUNT
    /\ deque_size(d) > OutgrowCount
    /\ WalkSteps(d) = deque_size(d)

\* C5: after an insert or an erase deque_at(d, i) addresses the i-th element
\* of the reference sequence, for every i below the size.
C5_AtIsReference ==
    last.op \in InsertOps \cup {"erase"} =>
        /\ ~d.fault
        /\ deque_size(d) = Len(ref)
        /\ \A i \in Probes(Len(ref)) : Load(d, deque_at(d, i)) = ref[i + 1]

\* C6: for a non-empty deque and every i below the size,
\* _deque_iterator_at(deque_begin(d), i) is the address deque_at(d, i).
C6_IteratorAtIsAt ==
    ~d.fault =>
        \A i \in Probes(deque_size(d)) :
            _deque_iterator_at(d, deque_begin(d), i) = deque_at(d, i)

\* C7: the iterator _deque_insert_n returns for a count of at least 1 belongs
\* to the deque, is as far from begin as pos was, and addresses the first
\* inserted copy of v.
C7_InsertReturn ==
    (last.op = "insert_n" /\ last.n >= 1) =>
        /\ ~d.fault
        /\ _deque_iterator_belong_to_deque(d, last.ret)
        /\ iterator_distance(d, deque_begin(d), last.ret) = last.i
        /\ Load(d, _deque_iterator_get_pointer_auxiliary(d, last.ret)) = last.v

\* The insert before the middle: the distance of pos from begin is below
\* size / 2.
FrontCase ==
    /\ last.op \in InsertOps
    /\ last.i < deque_size(last.pred) \div 2

\* The part of C8 about the copies: the deque expanded at the front, the
\* copy sources are elements before pos, and no element at or after pos was
\* read as a copy source or written.
FrontCopies ==
    LET a == Addresses(last.pred)
    IN  /\ d.g.side = "front"
        /\ d.g.mcopies <= last.i
        /\ Range(d.g.rd) \subseteq FrontAddrs(a, last.i)
        /\ Range(d.g.rd) \cap BackAddrs(a, last.i) = {}
        /\ Range(d.g.wr) \cap BackAddrs(a, last.i) = {}

\* The Blocks of the directory slots from the slot of the element pos
\* addresses to the finish slot.
BlocksFrom(x, pos) ==
    {MapAt(x, m) : m \in NextBlockFirst(x, pos).mappos .. x.finish.mappos}

\* C8: an insert before the middle expands at the front, copies only
\* elements before pos, and leaves the end iterator and every Block at or
\* after pos's Block unchanged.
C8_FrontFrame ==
    FrontCase =>
        /\ FrontCopies
        /\ deque_end(d) = deque_end(last.pred)
        /\ \A b \in BlocksFrom(last.pred, last.pos) \ {NULL, Wild} :
              b \in DOMAIN d.blocks /\ d.blocks[b] = last.pred.blocks[b]

ErasedEnd ==
    /\ last.op = "erase"
    /\ (last.i = 0 \/ last.i = Len(last.pre) - 1)

\* C10: deque_erase on the first or the last element calls no move and
\* copies nothing: one destroy, at most one Block free, the return value is
\* deque_begin (first) or deque_end (last), every other element stays.
C10_EraseEnds ==
    ErasedEnd =>
        /\ ~d.fault
        /\ d.g.mcalls = 0
        /\ d.g.copies = 0
        /\ d.g.destroys = 1
        /\ d.g.frees <= 1
        /\ last.ret = IF last.i = 0 THEN deque_begin(d) ELSE deque_end(d)
        /\ Elements(d) = RefErase(last.pre, last.i)
        /\ Addresses(d) = RefErase(Addresses(last.pred), last.i)

\* deque_erase was called on an element that is neither first nor last.
ErasedMiddle ==
    /\ last.op = "erase"
    /\ last.i > 0
    /\ last.i < Len(last.pre) - 1

\* C11: deque_erase at an index i that is neither first nor last leaves the
\* other elements in order; the elements before i are neither read as a copy
\* source nor written and stay where they were, each later element ends one
\* slot earlier, the size drops by one, the one destroy is that of the last
\* slot, start is unchanged and the iterator returned is at index i.
C11_EraseMiddle ==
    ErasedMiddle =>
        LET a == Addresses(last.pred)
        IN  /\ ~d.fault
            /\ Elements(d) = RefErase(last.pre, last.i)
            /\ Addresses(d) = Take(a, Len(a) - 1)
            /\ Range(d.g.rd) \cap FrontAddrs(a, last.i) = {}
            /\ Range(d.g.wr) \cap FrontAddrs(a, last.i) = {}
            /\ deque_size(d) = Len(a) - 1
            /\ d.g.destroys = 1
            /\ d.g.dd = <<a[Len(a)]>>
            /\ deque_begin(d) = deque_begin(last.pred)
            /\ _deque_iterator_belong_to_deque(d, last.ret)
            /\ iterator_distance(d, deque_begin(d), last.ret) = last.i

RangeErased == last.op \in {"erase_range", "clear"}

\* C12: deque_erase_range on the range of the indices [i, j) of a deque
\* holding S leaves S[0..i) followed by S[j..|S|) and the size |S| - (j - i)
\* and returns an iterator at index i; deque_clear leaves the deque empty; an
\* empty range changes nothing.
C12_EraseRange ==
    RangeErased =>
        /\ ~d.fault
        /\ Elements(d) = Take(last.pre, last.i) \o Drop(last.pre, last.i + last.n)
        /\ deque_size(d) = Len(last.pre) - last.n
        /\ (last.op = "erase_range" =>
               /\ _deque_iterator_belong_to_deque(d, last.ret)
               /\ iterator_distance(d, deque_begin(d), last.ret) = last.i)
        /\ (last.op = "clear" => deque_empty(d) /\ Elements(d) = <<>>)
        /\ (last.n = 0 => [d EXCEPT !.g = last.pred.g] = last.pred)

\* The Blocks of the directory slots from start to finish.
Attached(x) == {MapAt(x, m) : m \in x.start.mappos .. x.finish.mappos}

\* C13: deque_resize(d, n) on a deque holding S leaves the size n: S[0..n)
\* with the dropped elements destroyed when n < |S|, S followed by n - |S|
\* default values when n > |S|, the deque unchanged when n = |S|; no Block
\* after the one of the end iterator stays allocated.
C13_Resize ==
    last.op = "resize" =>
        LET a == Addresses(last.pred)
        IN  /\ ~d.fault
            /\ deque_size(d) = last.n
            /\ Elements(d) = RefResize(last.pre, last.n)
            /\ d.g.dd = Drop(a, last.n)
            /\ d.g.destroys = Len(Drop(a, last.n))
            /\ (last.n = Len(a) => [d EXCEPT !.g = last.pred.g] = last.pred)
            /\ Allocated(d) = Attached(d)

\* A cycle of expansions and as many shrinks at one end has just completed.
CycleDone == prev.op \in Ends /\ prev.v = prev.i

\* C14: k expansions at one end followed by k shrinks at that end give back
\* the size, the elements and the set of allocated Blocks from before the
\* expansions, and repeating the cycle does not raise the number of
\* allocated Blocks; no step of the cycle ends the run.
C14_Elastic ==
    /\ (prev.op \in Ends => ~d.fault)
    /\ (CycleDone =>
           /\ deque_size(d) = Len(prev.pre)
           /\ Elements(d) = prev.pre
           /\ Allocated(d) = prev.blk
           /\ Cardinality(Allocated(d)) <= prev.top)

(***************************************************************************)
(* SpecPair: two deques, d and other, built by deque_init_copy_range;      *)
(* comparison, swap and assignment between them.  ref is the pair of       *)
(* reference sequences.                                                    *)
(***************************************************************************)
MaxPair == 2

Run(n, v, w) == [k \in 1 .. n |-> IF k = n THEN w ELSE v]

PairSeqs ==
    {<<>>, <<1>>, <<2>>, <<1, 1>>, <<1, 2>>, <<2, 1>>, <<1, 2, 3>>, <<1, 2, 4>>,
     Run(_DEQUE_ELEM_COUNT + 1, 1, 1), Run(_DEQUE_ELEM_COUNT + 1, 1, 2),
     Run(FillCount + 1, 1, 1)}

PairValues == {1, 2}

\* The source ranges tried: the whole deque, and it without its first or
\* its last element.
SourceRanges(n) ==
    {r \in {<<0, n>>, <<1, n>>, <<0, n - 1>>, <<1, 1>>} : r[1] <= r[2] /\ r[2] <= n}

OtherAt(i) == _deque_iterator_next_n(other, deque_begin(other), i)

PairOp(name, i, n, ret) ==
    Op(name, i, n, 0, NoIter, ret)
        @@ [preo |-> Elements(other), predo |-> other, own |-> owner]

PairStep(d1, o1, own1, ref1, l) ==
    /\ d' = d1
    /\ other' = o1
    /\ owner' = own1
    /\ ref' = ref1
    /\ last' = l
    /\ prev' = Short(last)
    /\ work' = work + 1
    /\ UNCHANGED grown

PairInit ==
    \E a \in PairSeqs, b \in PairSeqs :
        /\ d = deque_init_copy_range(a)
        /\ other = deque_init_copy_range(b)
        /\ owner = OwnInit
        /\ ref = [d |-> a, other |-> b]
        /\ last = NoOp("init_copy_range", Len(a))
                     @@ [pred |-> deque_init_copy_range(a), preo |-> b,
                         predo |-> deque_init_copy_range(b), own |-> OwnInit]
        /\ prev = NoOp("none", 0)
        /\ work = 0
        /\ grown = 0

\* One more operation is explored after a store outside the directory.
PairBudget ==
    /\ ~d.fault
    /\ last.op # "compare"
    /\ (work < MaxPair \/ (d.smashed /\ work < MaxPair + 1))

\* deque_equal, deque_not_equal and deque_less of the two deques, in both
\* orders.
Compare ==
    /\ ~d.fault
    /\ last.op # "compare"
    /\ PairStep(d, other, owner, ref,
                PairOp("compare", 0, 0,
                       [eq |-> deque_equal(d, other),
                        ne |-> deque_not_equal(d, other),
                        lt |-> deque_less(d, other),
                        gt |-> deque_less(other, d)]))

Swap ==
    /\ PairBudget
    /\ PairStep(deque_swap(Fresh, other, owner).first,
                deque_swap(Fresh, other, owner).second,
                deque_swap(Fresh, other, owner).owner,
                [d |-> ref.other, other |-> ref.d],
                PairOp("swap", 0, 0, NoIter))

Assign ==
    /\ PairBudget
    /\ \E luck \in Lucks :
        /\ LuckOK(deque_assign(Fresh, other, luck), luck)
        /\ PairStep(deque_assign(Fresh, other, luck), other, owner,
                    [ref EXCEPT !.d = ref.other],
                    PairOp("assign", 0, deque_size(other), NoIter))

AssignRange ==
    /\ PairBudget
    /\ \E r \in SourceRanges(deque_size(other)), luck \in Lucks :
        /\ LuckOK(deque_assign_range(Fresh, other, OtherAt(r[1]), OtherAt(r[2]), luck), luck)
        /\ PairStep(deque_assign_range(Fresh, other, OtherAt(r[1]), OtherAt(r[2]), luck),
                    other, owner,
                    [ref EXCEPT !.d = SubSeq(ref.other, r[1] + 1, r[2])],
                    PairOp("assign_range", r[1], r[2] - r[1], NoIter))

PairPushFront ==
    /\ PairBudget
    /\ \E v \in PairValues, luck \in Lucks :
        /\ LuckOK(_deque_push_front_varg(Fresh, v, luck), luck)
        /\ PairStep(_deque_push_front_varg(Fresh, v, luck), other, owner,
                    [ref EXCEPT !.d = <<v>> \o @],
                    PairOp("push_front", 0, 1, NoIter))

NextPair == Compare \/ Swap \/ Assign \/ AssignRange \/ PairPushFront

SpecPair == PairInit /\ [][NextPair]_vars

\* Two values neither of which is less than the other.
Equiv(x, y) == ~TypeLess(x, y) /\ ~TypeLess(y, x)

SeqEqual(s, t) ==
    /\ Len(s) = Len(t)
    /\ \A i \in 1 .. Len(s) : Equiv(s[i], t[i])

\* s is before t in the lexicographic order: less at the first position
\* where they are not equivalent, or a proper prefix of t.
LexLess(s, t) ==
    \/ \E i \in 1 .. Len(s) :
        /\ i <= Len(t)
        /\ TypeLess(s[i], t[i])
        /\ \A j \in 1 .. i - 1 : Equiv(s[j], t[j])
    \/ /\ Len(s) < Len(t)
       /\ \A j \in 1 .. Len(s) : Equiv(s[j], t[j])

Compared == last.op = "compare"

\* C15: deque_equal(A, B) is true exactly when the two deques have the same
\* size and no element of either is less than the element at the same index
\* of the other; deque_not_equal is its negation.
C15_Equal ==
    Compared =>
        /\ ~last.ret.eq.fault
        /\ last.ret.eq.ret = SeqEqual(Elements(d), Elements(other))
        /\ last.ret.eq.ret = (deque_size(d) = deque_size(other)
                                /\ \A i \in 0 .. deque_size(d) - 1 :
                                    Equiv(Load(d, deque_at(d, i)),
                                          Load(other, deque_at(other, i))))
        /\ last.ret.ne.ret = ~last.ret.eq.ret
        /\ [d EXCEPT !.g = NoTrace] = last.pred
        /\ other = last.predo

C15_Witness ==
    /\ Compared
    /\ last.ret.eq.ret
    /\ deque_size(d) > _DEQUE_ELEM_COUNT
    /\ d.start.corepos # other.start.corepos

\* C16: deque_less(A, B) is the lexicographic order of the two element
\* sequences: the first position where the elements are not equivalent
\* decides, and without one the shorter deque is the smaller.
C16_Less ==
    Compared =>
        /\ ~last.ret.lt.fault
        /\ ~last.ret.gt.fault
        /\ last.ret.lt.ret = LexLess(Elements(d), Elements(other))
        /\ last.ret.gt.ret = LexLess(Elements(other), Elements(d))
        /\ (Elements(d) = <<1, 2, 3>> /\ Elements(other) = <<1, 2, 4>>
                => last.ret.lt.ret /\ ~last.ret.gt.ret)

C16_Witness ==
    /\ Compared
    /\ Elements(d) = <<1, 2, 3>>
    /\ Elements(other) = <<1, 2, 4>>
    /\ last.ret.lt.ret
    /\ prev.op = "swap"

Swapped == last.op = "swap"

\* C17: deque_swap exchanges the two deques: each has the other's elements,
\* directory, Blocks and boundary positions exactly as they were, nothing is
\* constructed, copied, destroyed, allocated or freed, and the container
\* reference of each deque's start and finish iterator is that deque.
C17_Swap ==
    Swapped =>
        /\ d = last.predo
        /\ other = last.pred
        /\ Elements(d) = last.preo
        /\ Elements(other) = last.pre
        /\ Addresses(d) = Addresses(last.predo)
        /\ Addresses(other) = Addresses(last.pred)
        /\ other.g = NoTrace
        /\ owner = [d |-> [start |-> "d", finish |-> "d"],
                    other |-> [start |-> "other", finish |-> "other"]]

C17_Witness ==
    /\ Swapped
    /\ Elements(d) # Elements(other)
    /\ deque_size(other) > _DEQUE_ELEM_COUNT
    /\ deque_size(d) = 3
    /\ prev.op = "push_front"

Assigned == last.op \in {"assign", "assign_range"}

\* C18: after deque_assign_range(d, b, e) from another deque the size of d
\* is distance(b, e) and its i-th element is a copy of the i-th element of
\* the range, whatever the size of d was before; deque_assign(d, src) makes
\* deque_equal(d, src) true; the source is unchanged.
C18_Assign ==
    Assigned =>
        /\ ~d.fault
        /\ deque_size(d) = last.n
        /\ Elements(d) = SubSeq(last.preo, last.i + 1, last.i + last.n)
        /\ other = last.predo
        /\ (last.op = "assign" =>
                deque_equal(d, other).ret /\ ~deque_equal(d, other).fault)

(***************************************************************************)
(* SpecInit: a created deque is initialized by one of the constructors,    *)
(* gets up to MaxTail elements pushed, and is the source of copy           *)
(* constructions (the source is kept in other).                            *)
(***************************************************************************)
MaxTail == 1
MaxCopies == 2

\* Counts at construction: none, within a Block, whole Blocks, the counts
\* around the fill of a 16-slot directory, and counts that need more slots.
InitCounts ==
    {0, 1, 2, _DEQUE_ELEM_COUNT - 1, _DEQUE_ELEM_COUNT, _DEQUE_ELEM_COUNT + 1,
     2 * _DEQUE_ELEM_COUNT, 3 * _DEQUE_ELEM_COUNT, FillCount, FillCount + 1,
     _DEQUE_ELEM_COUNT * (_DEQUE_MAP_COUNT - 2),
     _DEQUE_ELEM_COUNT * (_DEQUE_MAP_COUNT - 1), OutgrowCount,
     _DEQUE_ELEM_COUNT * _DEQUE_MAP_COUNT}

InitValues == {3, 7}

InitStep(d1, o1, ref1, l, t, c) ==
    /\ d' = d1
    /\ other' = o1
    /\ ref' = ref1
    /\ last' = l
    /\ prev' = Short(last)
    /\ work' = work + t
    /\ grown' = grown + c
    /\ UNCHANGED owner

CreatedInit ==
    /\ d = Created
    /\ other = Created
    /\ owner = OwnInit
    /\ ref = <<>>
    /\ last = NoOp("create", 0) @@ [pred |-> Created]
    /\ prev = NoOp("none", 0)
    /\ work = 0
    /\ grown = 0

IsCreated == d.mapsize = 0

InitN ==
    /\ IsCreated
    /\ \E n \in InitCounts :
        InitStep(deque_init_n(n), other, Copies(n, DefaultValue),
                 Op("init_n", 0, n, DefaultValue, NoIter, NoIter), 0, 0)

InitElem ==
    /\ IsCreated
    /\ \E n \in InitCounts, v \in InitValues :
        InitStep(_deque_init_elem_varg(n, v), other, Copies(n, v),
                 Op("init_elem", 0, n, v, NoIter, NoIter), 0, 0)

InitPushBack ==
    /\ ~IsCreated
    /\ ~d.fault
    /\ work < MaxTail
    /\ grown = 0
    /\ \E v \in InitValues, luck \in Lucks :
        /\ LuckOK(_deque_push_back_varg(Fresh, v, luck), luck)
        /\ InitStep(_deque_push_back_varg(Fresh, v, luck), other, Append(ref, v),
                    Op("push_back", Len(ref), 1, v, NoIter, NoIter), 1, 0)

InitPopFront ==
    /\ ~IsCreated
    /\ ~d.fault
    /\ work < MaxTail
    /\ grown = 0
    /\ deque_size(d) > 0
    /\ \E luck \in Lucks :
        /\ LuckOK(deque_pop_front(Fresh, luck), luck)
        /\ InitStep(deque_pop_front(Fresh, luck), other, Tail(ref),
                    Op("pop_front", 0, 1, 0, NoIter, NoIter), 1, 0)

\* A new deque copy-constructed from d; d stays as other.
InitCopy ==
    /\ ~IsCreated
    /\ ~d.fault
    /\ grown < MaxCopies
    /\ InitStep(deque_init_copy(d), d, ref,
                Op("init_copy", 0, deque_size(d), 0, NoIter, NoIter), 0, 1)

\* A big insert at either end of a small deque, and a second one after it.
InitInsert ==
    /\ ~IsCreated
    /\ ~d.fault
    /\ work <= MaxTail
    /\ grown = 0
    /\ deque_size(d) <= MaxSeed \/ last.op = "insert_n"
    /\ \E i \in {0, deque_size(d)}, n \in {FillCount, OutgrowCount},
          v \in Values, luck \in Lucks :
        /\ LuckOK(_deque_insert_n_varg(Fresh, At(i), n, v, luck).d, luck)
        /\ InitStep(_deque_insert_n_varg(Fresh, At(i), n, v, luck).d, other,
                    RefInsert(ref, i, Copies(n, v)),
                    Op("insert_n", i, n, v, At(i),
                       _deque_insert_n_varg(Fresh, At(i), n, v, luck).ret),
                    1, 0)

NextInit == InitN \/ InitElem \/ InitPushBack \/ InitPopFront \/ InitCopy

\* Construction followed by big inserts at the ends.
NextGrow == InitN \/ InitElem \/ InitInsert

SpecGrow == CreatedInit /\ [][NextGrow]_vars

SpecInit == CreatedInit /\ [][NextInit]_vars

Constructed == last.op \in {"init_n", "init_elem", "init_copy"}

\* The slots of the elements are distinct slots of allocated Blocks that the
\* directory holds.
SoundLayout(x) ==
    /\ ~x.fault /\ ~x.smashed
    /\ \A a \in Range(Addresses(x)) : ValidAddr(x, a)
    /\ Cardinality(Range(Addresses(x))) = Len(Addresses(x))
    /\ \A m \in x.start.mappos .. x.finish.mappos : InMap(x, m) /\ MapAt(x, m) \in DOMAIN x.blocks

\* C19: deque_init_n(d, n) gives a deque of exactly n default elements, empty
\* exactly when n = 0, for every n (whole Blocks and more than 16 directory
\* slots included); _deque_init_elem(d, n, v) gives n copies of v;
\* deque_init_copy(dst, src) gives a deque with deque_equal(dst, src).
C19_Construct ==
    /\ (Constructed => SoundLayout(d))
    /\ (last.op = "init_n" =>
            /\ deque_size(d) = last.n
            /\ Elements(d) = Copies(last.n, DefaultValue)
            /\ (deque_empty(d) <=> last.n = 0)
            /\ d.g.inits = last.n)
    /\ (last.op = "init_elem" =>
            /\ deque_size(d) = last.n
            /\ Elements(d) = Copies(last.n, last.v)
            /\ (deque_empty(d) <=> last.n = 0))
    /\ (last.op = "init_copy" =>
            /\ deque_equal(d, other).ret
            /\ ~deque_equal(d, other).fault
            /\ Elements(d) = ref
            /\ [other EXCEPT !.g = NoTrace] = last.pred)

\* Witness: a copy of 249 elements (17 Blocks, a directory of 24 slots)
\* whose source starts at another offset of its Block.
C19_Witness ==
    /\ last.op = "init_copy"
    /\ prev.op = "pop_front"
    /\ deque_size(d) = OutgrowCount - 1
    /\ d.mapsize > _DEQUE_MAP_COUNT
    /\ d.start.corepos # other.start.corepos
    /\ deque_equal(d, other).ret

\* C20: deque_front and deque_back return the null pointer exactly when the
\* deque is empty; otherwise deque_front returns the address of the first
\* element of the walk from begin to end and deque_back the address of the
\* last one.  (Both only read the deque.)
C20_FrontBack ==
    ~d.fault =>
        /\ (deque_front(d) = NullAddr) = deque_empty(d)
        /\ (deque_back(d) = NullAddr) = deque_empty(d)
        /\ deque_empty(d) = (Addresses(d) = <<>>)
        /\ (~deque_empty(d) =>
                /\ deque_front(d) = Addresses(d)[1]
                /\ deque_back(d) = Addresses(d)[Len(Addresses(d))])

(***************************************************************************)
(* SpecPop: pops at both ends, the empty deque included, under both        *)
(* builds, on the constructed deques and on those a big insert and a       *)
(* push_back have grown.  A failed assertion ends the run.                 *)
(***************************************************************************)
Aborted == last.op \in {"pop_back", "pop_front"} /\ last.ret = "assert"

PopBackAny ==
    /\ Budget
    /\ ~Aborted
    /\ \E build \in Builds, luck \in Lucks :
        CommitRet(PopBackBuild(Fresh, build, luck), luck,
                  Take(ref, Len(ref) - 1), "pop_back", Len(ref) - 1, 1, build,
                  NoIter, 0)

PopFrontAny ==
    /\ Budget
    /\ ~Aborted
    /\ \E build \in Builds, luck \in Lucks :
        CommitRet(PopFrontBuild(Fresh, build, luck), luck,
                  Drop(ref, 1), "pop_front", 0, 1, build, NoIter, 0)

PopGrow == ~Aborted /\ GrowN

PopPushBack == ~Aborted /\ PushBack

NextPop == PopGrow \/ PopPushBack \/ PopBackAny \/ PopFrontAny

SpecPop == Init /\ [][NextPop]_vars

Popped == last.op \in {"pop_back", "pop_front"}

\* C21: a pop on an empty deque changes nothing (no element destroyed, no
\* Block freed, start and finish as before), the assertion failing where it
\* is compiled in; a pop on a non-empty deque removes exactly the element at
\* its end and destroys exactly that element.
C21_Pop ==
    Popped =>
        IF Len(last.pre) = 0
        THEN /\ [d EXCEPT !.g = NoTrace] = last.pred
             /\ d.g = NoTrace
             /\ (last.v = "debug" => last.ret = "assert")
        ELSE /\ last.ret = "done"
             /\ ~d.fault
             /\ deque_size(d) = Len(last.pre) - 1
             /\ d.g.destroys = 1
             /\ (last.op = "pop_back" =>
                    /\ Elements(d) = Take(last.pre, Len(last.pre) - 1)
                    /\ d.g.dd = <<Addresses(last.pred)[Len(last.pre)]>>
                    /\ d.start = last.pred.start)
             /\ (last.op = "pop_front" =>
                    /\ Elements(d) = Drop(last.pre, 1)
                    /\ d.g.dd = <<Addresses(last.pred)[1]>>
                    /\ d.finish = last.pred.finish)

NoRepeat(q) == Cardinality(Range(q)) = Len(q)

\* C22: the constructed and not yet destroyed slots are exactly those of
\* [begin, end).  Stated over one operation, from the state before it (where
\* the live slots are those of [begin, end)) to the state after it: the slots
\* it destroyed were live and none twice, the slots it constructed were not
\* live (or had been destroyed by it) and none twice, the result is the new
\* [begin, end), and every live slot is in an allocated Block.
C22_Lifecycle ==
    /\ ~d.fault
    /\ NoRepeat(d.g.dd)
    /\ NoRepeat(d.g.ii)
    /\ (last.op \notin {"init_n", "init_copy_range"} =>
            /\ Range(d.g.dd) \subseteq Range(Addresses(last.pred))
            /\ Range(d.g.ii) \cap (Range(Addresses(last.pred)) \ Range(d.g.dd)) = {}
            /\ Range(Addresses(d))
                 = (Range(Addresses(last.pred)) \ Range(d.g.dd)) \cup Range(d.g.ii))
    /\ (last.op \in {"init_n", "init_copy_range"} =>
            Range(Addresses(d)) = Range(d.g.ii))
    /\ NoRepeat(Addresses(d))
    /\ \A a \in Range(Addresses(d)) : ValidAddr(d, a)

(***************************************************************************)
(* SpecDestroy: the runs of SpecPop, each ended by the destruction of the  *)
(* deque.                                                                  *)
(***************************************************************************)
Destroyed == last.op = "destroy"

DestroyStep(r) ==
    Step(r.d, <<>>,
         Op("destroy", 0, deque_size(d), 0, NoIter,
            [elems |-> r.elems, blocks |-> r.blocks]),
         0)

Destroy ==
    /\ ~d.fault
    /\ ~Destroyed
    /\ ~Aborted
    /\ DestroyStep(_deque_destroy_auxiliary(Fresh))

NextDestroy == (~Destroyed /\ NextPop) \/ Destroy

SpecDestroy == Init /\ [][NextDestroy]_vars

\* The Blocks in the directory slots from the start slot to the finish slot.
ValidRun(x) == [k \in 1 .. (x.finish.mappos - x.start.mappos + 1) |->
                   MapAt(x, x.start.mappos + k - 1)]

\* C23: the destruction destroys every element of [begin, end) exactly once,
\* with every Block still allocated; then deallocates every Block of the
\* slots from the start slot to the finish slot exactly once; then the
\* directory; and leaves no Block allocated.
C23_Destroy ==
    Destroyed =>
        /\ ~d.fault
        /\ last.ret.elems.g.dd = Addresses(last.pred)
        /\ NoRepeat(last.ret.elems.g.dd)
        /\ last.ret.elems.g.frees = 0
        /\ last.ret.elems.g.mfrees = 0
        /\ Allocated(last.ret.elems) = Allocated(last.pred)
        /\ last.ret.blocks.g.dd = last.ret.elems.g.dd
        /\ last.ret.blocks.g.frees = Len(ValidRun(last.pred))
        /\ NoRepeat(ValidRun(last.pred))
        /\ Range(ValidRun(last.pred)) = Allocated(last.pred)
        /\ last.ret.blocks.g.mfrees = 0
        /\ Allocated(last.ret.blocks) = {}
        /\ d.g.mfrees = 1
        /\ d.g.frees = last.ret.blocks.g.frees
        /\ d.g.dd = last.ret.elems.g.dd
        /\ Allocated(d) = {}
        /\ DOMAIN d.map = {}

\* C24: an expansion that needed new Blocks and found the spare directory
\* slots sufficient (it shifted the valid run, or attached the Blocks where
\* the run was) stored every new Block pointer inside the directory.
C24_StoresInside ==
    d.g.branch \in {"shift", "attach"} => ~d.g.oob

IsPrefix(s, t) == Len(s) <= Len(t) /\ SubSeq(t, 1, Len(s)) = s

IsSuffix(s, t) == Len(s) <= Len(t) /\ SubSeq(t, Len(t) - Len(s) + 1, Len(t)) = s

Reallocated == d.g.branch = "realloc"

\* C25: after an operation that reallocated the directory, the Blocks of
\* the old valid run are in the new directory in the same order (the new
\* Blocks before or after them), the start and finish iterators and the
\* returned iterator reference the Blocks their slots hold, and the elements
\* are those of the reference sequence.
C25_ReallocKeepsRun ==
    Reallocated =>
        /\ ~d.fault
        /\ (IsPrefix(ValidRun(last.pred), ValidRun(d))
              \/ IsSuffix(ValidRun(last.pred), ValidRun(d)))
        /\ MapAt(d, d.start.mappos) = d.start.first
        /\ MapAt(d, d.finish.mappos) = d.finish.first
        /\ (last.op \in InsertOps => MapAt(d, last.ret.mappos) = last.ret.first)
        /\ Elements(d) = ref

RunSlots(x) == x.start.mappos .. x.finish.mappos

\* C26: the directory slots from the start slot to the finish slot are
\* slots of the directory and hold non-null pointers to distinct allocated
\* Blocks, and every other directory slot is null.
C26_Directory ==
    ~d.fault =>
        /\ \A m \in RunSlots(d) :
            InMap(d, m) /\ MapAt(d, m) # NULL /\ MapAt(d, m) \in Allocated(d)
        /\ NoRepeat(ValidRun(d))
        /\ \A i \in 0 .. (d.mapsize - 1) : i \notin RunSlots(d) => MapAt(d, i) = NULL

\* C27: the Blocks allocated are as many as the slots from the start slot to
\* the finish slot, each referenced by exactly one of these slots.
C27_Accounting ==
    ~d.fault =>
        /\ Cardinality(Allocated(d)) = d.finish.mappos - d.start.mappos + 1
        /\ Range(ValidRun(d)) = Allocated(d)
        /\ NoRepeat(ValidRun(d))

(***************************************************************************)
(* SpecShrink: the runs of SpecErase and SpecPop together with deque_resize *)
(* to a smaller size: every operation that shrinks, after every growth.    *)
(***************************************************************************)
ShrinkTargets(n) == {k \in {0, n \div 2, n - 1} : k >= 0 /\ k < n}

ResizeDown ==
    /\ Budget
    /\ ~Aborted
    /\ \E n \in ShrinkTargets(deque_size(d)), luck \in Lucks :
        Commit(deque_resize(Fresh, n, luck), luck, RefResize(ref, n),
               Op("resize", deque_size(d), n, 0, NoIter, NoIter), 0)

NextShrink == (~Aborted /\ NextErase) \/ NextPop \/ ResizeDown

SpecShrink == Init /\ [][NextShrink]_vars

ShrinkOps == {"pop_back", "pop_front", "erase", "erase_range", "clear", "resize"}

\* The directory b is the directory a with some slots of Blocks that are no
\* longer allocated in x set to null.
OnlyNulled(a, b, x) ==
    /\ b.mapsize = a.mapsize
    /\ \A i \in 0 .. (a.mapsize - 1) :
        \/ MapAt(b, i) = MapAt(a, i)
        \/ MapAt(b, i) = NULL /\ MapAt(a, i) \notin Allocated(x)

\* C28: no operation makes map_size smaller, and a shrinking operation
\* leaves map_size and the directory as they were but for the slots of the
\* Blocks it freed, which it sets to null.
C28_MapNeverShrinks ==
    [][/\ d'.mapsize >= d.mapsize
       /\ (last'.op \in ShrinkOps => OnlyNulled(d, d', d'))]_vars

\* Witness: a shrinking operation on a deque whose directory has grown freed
\* a Block and set its slot to null.
C28_Witness ==
    /\ last.op \in ShrinkOps
    /\ ~d.fault
    /\ d.mapsize > _DEQUE_MAP_COUNT
    /\ d.g.frees > 0
    /\ OnlyNulled(last.pred, d, d)
    /\ \E i \in 0 .. (d.mapsize - 1) : MapAt(d, i) = NULL /\ MapAt(last.pred, i) # NULL

\* The smallest multiple of the grow step that is at least n.
StepsCovering(n) ==
    CHOOSE g \in {k * _DEQUE_MAP_GROW_STEP : k \in 0 .. (Clamp(n) + 1)} :
        g >= n /\ g - _DEQUE_MAP_GROW_STEP < n

\* The spare directory slots of x, and the new Blocks the last operation
\* allocated.
Spare(x) == x.mapsize - (x.finish.mappos - x.start.mappos + 1)

\* C29: an operation that needed more new Blocks than the directory had
\* spare slots reallocated it with map_size increased by the smallest
\* multiple of 8 covering the shortfall, and the new directory has room for
\* the old valid run and the new Blocks; a constructor takes 16 slots when
\* its Blocks fit and otherwise 16 plus the smallest multiple of 8 covering
\* the excess.
C29_GrowStep ==
    /\ (last.op \in {"init_n", "init_elem"} =>
            /\ d.g.allocs = Len(ValidRun(d))
            /\ d.mapsize = IF d.g.allocs <= _DEQUE_MAP_COUNT
                           THEN _DEQUE_MAP_COUNT
                           ELSE _DEQUE_MAP_COUNT
                                  + StepsCovering(d.g.allocs - _DEQUE_MAP_COUNT)
            /\ \A m \in RunSlots(d) : InMap(d, m))
    /\ (last.op \in {"insert_n", "push_back"} =>
            /\ Reallocated = (d.g.allocs > Spare(last.pred))
            /\ (Reallocated =>
                    /\ d.mapsize = last.pred.mapsize
                          + StepsCovering(d.g.allocs - Spare(last.pred))
                    /\ d.mapsize >= Len(ValidRun(last.pred)) + d.g.allocs
                    /\ \A m \in RunSlots(d) : InMap(d, m)
                    /\ ~d.g.oob)
            /\ (~Reallocated => d.mapsize = last.pred.mapsize))

\* Witness: a reallocation whose shortfall is no multiple of the grow step,
\* from a directory whose run was not centred.
C29_Witness ==
    /\ last.op = "insert_n"
    /\ Reallocated
    /\ (d.g.allocs - Spare(last.pred)) % _DEQUE_MAP_GROW_STEP # 0
    /\ d.g.allocs - Spare(last.pred) > _DEQUE_MAP_GROW_STEP
    /\ d.mapsize = last.pred.mapsize + 2 * _DEQUE_MAP_GROW_STEP
    /\ last.pred.start.mappos # Spare(last.pred) \div 2

\* The end the last operation expanded ("front", "back" or "none"), and the
\* unused slots of the boundary Block of x at that end: from the end marker
\* to the Block's one-past-last boundary, or from the Block's first slot to
\* the start marker.
ExpandedAt ==
    IF last.op = "push_back" THEN "back"
    ELSE IF last.op = "push_front" THEN "front"
    ELSE IF last.op \in {"insert_n", "insert_range"} THEN d.g.side
    ELSE "none"

Unused(x, side) ==
    IF side = "back" THEN _DEQUE_ELEM_COUNT - x.finish.corepos
    ELSE x.start.corepos

\* The expansion by k at side allocated and freed no Block and left the
\* directory as it was; only the marker of that side moved, by k slots.
OnlyMarkerMoved(a, b, side, k) ==
    /\ b.g.branch = "room"
    /\ b.g.allocs = 0
    /\ b.g.frees = 0
    /\ ~b.g.oob
    /\ b.map = a.map
    /\ b.mapsize = a.mapsize
    /\ DOMAIN b.blocks = DOMAIN a.blocks
    /\ IF side = "back"
       THEN /\ b.start = a.start
            /\ b.finish = [a.finish EXCEPT !.corepos = @ + k]
       ELSE /\ b.finish = a.finish
            /\ b.start = [a.start EXCEPT !.corepos = @ - k]

\* C30 as stated: an expansion by k, with k at most the unused slots of the
\* boundary Block at the growing end, allocates no Block and does not touch
\* the directory; only the marker moves.
C30_RoomInclusive ==
    (ExpandedAt # "none" /\ last.n <= Unused(last.pred, ExpandedAt))
        => OnlyMarkerMoved(last.pred, d, ExpandedAt, last.n)

\* C30 amended: that holds for k strictly less than the unused slots; an
\* expansion by the unused slots or more allocates at least one Block.
C30_Room ==
    /\ (ExpandedAt # "none" /\ last.n < Unused(last.pred, ExpandedAt))
            => OnlyMarkerMoved(last.pred, d, ExpandedAt, last.n)
    /\ (ExpandedAt # "none" /\ last.n >= Unused(last.pred, ExpandedAt))
            => d.g.branch # "room" /\ d.g.allocs >= 1

\* Witness: a push_front into a first Block with several unused slots.
C30_Witness ==
    /\ last.op = "push_front"
    /\ ~d.fault
    /\ Unused(last.pred, "front") > 1
    /\ Unused(last.pred, "front") < _DEQUE_ELEM_COUNT
    /\ OnlyMarkerMoved(last.pred, d, "front", 1)
    /\ deque_size(d) = deque_size(last.pred) + 1

(***************************************************************************)
(* The two expansions applied on their own: to a constructed deque, and to *)
(* the deque an expansion left, with the caller's iterator at an index of  *)
(* the deque.  The new elements hold the default value.                    *)
(***************************************************************************)
MaxExpand == 2
ExpandCounts ==
    {0, 1, 2, _DEQUE_ELEM_COUNT - 1, _DEQUE_ELEM_COUNT, _DEQUE_ELEM_COUNT + 1,
     FillCount, OutgrowCount}

ExpandBudget == ~d.fault /\ work < MaxExpand

ExpandStep(r, luck, ref1, name, i, k) ==
    Commit(r.d, luck, ref1, Op(name, i, k, 0, r.pos, r.ret), 0)

ExpandEnd ==
    /\ ExpandBudget
    /\ \E k \in ExpandCounts, i \in Positions(deque_size(d)), luck \in Lucks :
        ExpandStep(_expand_at_end(Fresh, k, At(i), luck), luck,
                   ref \o Copies(k, DefaultValue), "expand_end", i, k)

ExpandBegin ==
    /\ ExpandBudget
    /\ \E k \in ExpandCounts, i \in Positions(deque_size(d)), luck \in Lucks :
        ExpandStep(_expand_at_begin(Fresh, k, At(i), luck), luck,
                   Copies(k, DefaultValue) \o ref, "expand_begin", i, k)

NextExpand == ExpandEnd \/ ExpandBegin

SpecExpand == Init /\ [][NextExpand]_vars

\* it references a slot of the valid run of x whose Block is allocated, at a
\* position of that Block.
ValidIter(x, it) ==
    /\ InMap(x, it.mappos)
    /\ it.mappos >= x.start.mappos
    /\ it.mappos <= x.finish.mappos
    /\ it.first # NULL
    /\ it.first = MapAt(x, it.mappos)
    /\ it.first \in DOMAIN x.blocks
    /\ it.corepos >= 0
    /\ it.corepos <= _DEQUE_ELEM_COUNT

IndexOf(x, it) == iterator_distance(x, deque_begin(x), it)

\* C31: _expand_at_end(k) returns an iterator at index old_size and
\* _expand_at_begin(k) one at index k, in the form of the first slot of a
\* Block; the returned iterator and the caller's position (still at its
\* element) are valid for the deque after the call, and the size grew by k.
C31_ExpandReturns ==
    /\ (last.op = "expand_end" =>
            /\ ~d.fault /\ ~d.g.oob
            /\ deque_size(d) = Len(last.pre) + last.n
            /\ ValidIter(d, last.ret)
            /\ ValidIter(d, last.pos)
            /\ IndexOf(d, last.ret) = Len(last.pre)
            /\ IndexOf(d, last.pos) = last.i)
    /\ (last.op = "expand_begin" =>
            /\ ~d.fault /\ ~d.g.oob
            /\ deque_size(d) = Len(last.pre) + last.n
            /\ ValidIter(d, last.ret)
            /\ ValidIter(d, last.pos)
            /\ last.ret.corepos < _DEQUE_ELEM_COUNT
            /\ IndexOf(d, last.ret) = last.n
            /\ IndexOf(d, last.pos) = last.i + last.n)

\* The Blocks that hold an element of [begin, end) of x.
LiveBlocks(x) == {a[1] : a \in Range(Addresses(x))}

\* A shrinking operation that ran (a pop stopped by its assertion did not).
Shrunk == last.op \in ShrinkOps /\ ~Aborted /\ ~d.fault

\* C32 as stated: after a shrink at an end every Block that holds no slot of
\* the new [start, end) range is deallocated and its directory slot is null:
\* no allocated Block is left without a live element.
C32_NoIdleBlock ==
    Shrunk =>
        /\ Allocated(d) \subseteq LiveBlocks(d)
        /\ \A i \in 0 .. (d.mapsize - 1) :
            MapAt(d, i) \notin LiveBlocks(d) => MapAt(d, i) = NULL

\* C32 amended: after a shrink at an end every directory slot that the
\* valid run left (a slot from the old start slot to the old finish slot that
\* is outside the new start slot .. finish slot) is null and the Block it
\* held is deallocated; the Blocks of the new start and finish slots stay,
\* also when they hold no live element.
C32_LeftSlotsFreed ==
    Shrunk =>
        \A i \in RunSlots(last.pred) \ RunSlots(d) :
            /\ InMap(d, i) => MapAt(d, i) = NULL
            /\ MapAt(last.pred, i) \notin Allocated(d)

\* Witness: a shrink at the end freed the Blocks of the slots the run left
\* and kept the Block of the new finish slot, which holds no live element.
C32_Witness ==
    /\ Shrunk
    /\ ~d.smashed
    /\ d.g.frees > 0
    /\ RunSlots(last.pred) \ RunSlots(d) # {}
    /\ d.finish.corepos = 0
    /\ deque_size(d) > 0
    /\ MapAt(d, d.finish.mappos) \in Allocated(d) \ LiveBlocks(d)

\* The marker it of x references a directory slot that holds its Block,
\* which is allocated.
MarkerSound(x, it) ==
    /\ InMap(x, it.mappos)
    /\ MapAt(x, it.mappos) # NULL
    /\ MapAt(x, it.mappos) = it.first
    /\ it.first \in Allocated(x)

\* C33: a shrink deallocates no Block that still holds a slot of the new
\* [start, end) range, nor the Block of the new start or finish marker: after
\* it both markers reference non-null allocated Blocks, every remaining
\* element is in an allocated Block and has its old value, and every Block
\* deallocated was allocated.
C33_KeepsLiveBlocks ==
    (last.op \in ShrinkOps /\ ~Aborted) =>
        /\ ~d.fault
        /\ MarkerSound(d, d.start)
        /\ MarkerSound(d, d.finish)
        /\ LiveBlocks(d) \subseteq Allocated(d)
        /\ \A a \in Range(Addresses(d)) : ValidAddr(d, a)
        /\ Elements(d) = ref

(***************************************************************************)
(* The iterator functions applied on their own to iterators that belong to *)
(* the deque, after pushes, pops and big inserts have shaped it.           *)
(***************************************************************************)
\* The logical index an iterator of x denotes: (Block k, one-past-last) and
\* (Block k + 1, first slot) denote the same index.
Index(x, it) ==
    (it.mappos - x.start.mappos) * _DEQUE_ELEM_COUNT
        + it.corepos - x.start.corepos

\* The iterators explored: those of the first two and the last two slots of
\* the valid run, at the ends of their Blocks and around the markers, that
\* belong to the deque and denote an index from 0 to its size.
EdgeSlots(x) ==
    {m \in RunSlots(x) : m <= x.start.mappos + 1 \/ m >= x.finish.mappos - 1}

EdgeCores(x) ==
    {0, _DEQUE_ELEM_COUNT - 1, _DEQUE_ELEM_COUNT,
     x.start.corepos, x.finish.corepos, Clamp(x.finish.corepos - 1)}

Iterators(x) ==
    {it \in {Iter(m, MapAt(x, m), c) : m \in EdgeSlots(x), c \in EdgeCores(x)} :
        /\ _deque_iterator_belong_to_deque(x, it)
        /\ Index(x, it) >= 0
        /\ Index(x, it) <= Index(x, x.finish)}

StepCounts == {0, 2, _DEQUE_ELEM_COUNT, _DEQUE_ELEM_COUNT + 1}

IterOps == {"iter_equal", "iter_less", "iter_minus", "iter_next", "iter_prev",
            "iter_next_n", "iter_prev_n"}

AtIterators == last.op \in IterOps

\* The record of an iterator function applied to a (and b, or n).
IterOp(name, a, b, n, ret) ==
    [op |-> name, i |-> 0, n |-> n, v |-> 0, pos |-> a, ret |-> ret,
     pre |-> <<>>, b |-> b]

IterStep(l) ==
    /\ ~AtIterators
    /\ ~d.fault
    /\ last' = l
    /\ UNCHANGED <<d, ref, prev, work, grown, other, owner>>

IterEqual ==
    \E a \in Iterators(d), b \in Iterators(d) :
        IterStep(IterOp("iter_equal", a, b, 0, _deque_iterator_equal(a, b)))

IterLess ==
    \E a \in Iterators(d), b \in Iterators(d) :
        IterStep(IterOp("iter_less", a, b, 0, _deque_iterator_less(d, a, b)))

IterMinus ==
    \E a \in Iterators(d), b \in Iterators(d) :
        IterStep(IterOp("iter_minus", a, b, 0, _deque_iterator_minus(d, a, b)))

IterNext ==
    \E a \in Iterators(d) :
        IterStep(IterOp("iter_next", a, NoIter, 1, _deque_iterator_next(d, a)))

IterPrev ==
    \E a \in Iterators(d) :
        IterStep(IterOp("iter_prev", a, NoIter, 1, _deque_iterator_prev(d, a)))

IterNextN ==
    \E a \in Iterators(d), n \in StepCounts :
        IterStep(IterOp("iter_next_n", a, NoIter, n,
                        _deque_iterator_next_n(d, a, n)))

IterPrevN ==
    \E a \in Iterators(d), n \in StepCounts :
        IterStep(IterOp("iter_prev_n", a, NoIter, n,
                        _deque_iterator_prev_n(d, a, n)))

IterShape ==
    /\ ~AtIterators
    /\ PushBack \/ PushFront \/ PopBack \/ PopFront \/ GrowN

NextIter ==
    \/ IterShape
    \/ IterEqual
    \/ IterLess
    \/ IterMinus
    \/ IterNext
    \/ IterPrev
    \/ IterNextN
    \/ IterPrevN

SpecIter == Init /\ [][NextIter]_vars

\* C34: two iterators that belong to the deque are equal for
\* _deque_iterator_equal exactly when they denote the same logical index;
\* deque_empty is true exactly when start and finish denote the same index.
C34_IterEqual ==
    /\ (last.op = "iter_equal" =>
            (last.ret <=> Index(d, last.pos) = Index(d, last.b)))
    /\ (~d.fault => (deque_empty(d) <=> Index(d, d.start) = Index(d, d.finish)))

\* it denotes an index of [lo, size + hi] of d.
IndexIn(it, lo, hi) ==
    Index(d, it) >= lo /\ Index(d, it) <= Index(d, d.finish) + hi

\* C38: stepping an iterator of an index in [0, size) forward and then back,
\* or one of an index in (0, size] back and then forward, gives an iterator
\* equal to it; n steps forward and n steps back, or back and forward, do so
\* too while the steps stay in [0, size]; every iterator on the way belongs
\* to the deque.
C38_StepRoundTrip ==
    /\ (last.op = "iter_next" /\ IndexIn(last.pos, 0, 0 - 1) =>
            /\ _deque_iterator_belong_to_deque(d, last.ret)
            /\ Index(d, last.ret) = Index(d, last.pos) + 1
            /\ _deque_iterator_equal(_deque_iterator_prev(d, last.ret), last.pos))
    /\ (last.op = "iter_prev" /\ IndexIn(last.pos, 1, 0) =>
            /\ _deque_iterator_belong_to_deque(d, last.ret)
            /\ Index(d, last.ret) = Index(d, last.pos) - 1
            /\ _deque_iterator_equal(_deque_iterator_next(d, last.ret), last.pos))
    /\ (last.op = "iter_next_n" /\ IndexIn(last.pos, 0, 0 - last.n) =>
            /\ _deque_iterator_belong_to_deque(d, last.ret)
            /\ Index(d, last.ret) = Index(d, last.pos) + last.n
            /\ _deque_iterator_equal(
                   _deque_iterator_prev_n(d, last.ret, last.n), last.pos))
    /\ (last.op = "iter_prev_n" /\ IndexIn(last.pos, last.n, 0) =>
            /\ _deque_iterator_belong_to_deque(d, last.ret)
            /\ Index(d, last.ret) = Index(d, last.pos) - last.n
            /\ _deque_iterator_equal(
                   _deque_iterator_next_n(d, last.ret, last.n), last.pos))

\* C39: _deque_iterator_minus(a, b) is index(a) - index(b) and the negation
\* of _deque_iterator_minus(b, a); _deque_iterator_less(a, b) is true exactly
\* when index(a) < index(b).
C39_Minus ==
    /\ (last.op = "iter_minus" =>
            /\ last.ret = Index(d, last.pos) - Index(d, last.b)
            /\ last.ret = 0 - _deque_iterator_minus(d, last.b, last.pos))
    /\ (last.op = "iter_less" =>
            (last.ret <=> Index(d, last.pos) < Index(d, last.b)))

\* Witness: two iterators of different form, the one-past-last boundary of
\* the start Block and the first slot of the next Block, compared equal in a
\* deque that is not empty.
C34_Witness ==
    /\ last.op = "iter_equal"
    /\ last.ret
    /\ last.pos.mappos + 1 = last.b.mappos
    /\ last.pos = d.start
    /\ deque_size(d) > 0
    /\ ~deque_empty(d)

\* Witness: the start iterator in its one-past-last form stepped forward;
\* the step back gives the first slot of the next Block, which is equal to
\* it and not the same.
C38_Witness ==
    /\ last.op = "iter_next"
    /\ last.pos = d.start
    /\ d.start.corepos = _DEQUE_ELEM_COUNT
    /\ deque_size(d) > 1
    /\ last.ret.mappos = d.start.mappos + 1
    /\ _deque_iterator_prev(d, last.ret) # last.pos
    /\ _deque_iterator_equal(_deque_iterator_prev(d, last.ret), last.pos)

\* Witness: the difference of two iterators of one Block, the first before
\* the second (the slot difference minus one wraps).
C39_Witness ==
    /\ last.op = "iter_minus"
    /\ last.pos.mappos = last.b.mappos
    /\ last.ret < 0
    /\ SizeT(last.b.mappos - last.pos.mappos - 1) = SizeWidth - 1
    /\ last.ret = last.pos.corepos - last.b.corepos

(***************************************************************************)
(* The two moves applied on their own to a range [b, e) of a deque that    *)
(* pushes, pops and big inserts have shaped, by c slots that keep the      *)
(* target range inside the deque; the range has at most MaxMove elements.  *)
(***************************************************************************)
MoveCounts == {0, 1, 2, _DEQUE_ELEM_COUNT, _DEQUE_ELEM_COUNT + 1}

MaxMove == 20

MovePositions(n) ==
    {i \in 0 .. Clamp(n) : i \in Positions(n) \/ i >= n - 2 \/ i <= 2}

Moved == last.op \in {"move_end", "move_begin"}

\* The sequence q after its elements b+1 .. e went c places up (down).
MovedUp(q, b, e, c) ==
    [k \in 1 .. Len(q) |-> IF k > b + c /\ k <= e + c THEN q[k - c] ELSE q[k]]

MovedDown(q, b, e, c) ==
    [k \in 1 .. Len(q) |-> IF k > b - c /\ k <= e - c THEN q[k + c] ELSE q[k]]

MoveStep(r, ref1, name, b, e, c) ==
    Step(r.d, ref1, Op(name, b, c, e, At(b), r.ret), 0)

MoveEnd ==
    /\ ~Moved
    /\ ~d.fault
    /\ \E b \in MovePositions(deque_size(d)), e \in MovePositions(deque_size(d)),
          c \in MoveCounts :
        /\ b <= e
        /\ e - b <= MaxMove
        /\ e + c <= deque_size(d)
        /\ MoveStep(_move_elem_to_end(Fresh, At(b), At(e), c),
                    MovedUp(ref, b, e, c), "move_end", b, e, c)

MoveBegin ==
    /\ ~Moved
    /\ ~d.fault
    /\ \E b \in MovePositions(deque_size(d)), e \in MovePositions(deque_size(d)),
          c \in MoveCounts :
        /\ b <= e
        /\ e - b <= MaxMove
        /\ b - c >= 0
        /\ MoveStep(_move_elem_to_begin(Fresh, At(b), At(e), c),
                    MovedDown(ref, b, e, c), "move_begin", b, e, c)

MoveShape ==
    /\ ~Moved
    /\ PushBack \/ PushFront \/ PopFront \/ GrowN

NextMove == MoveShape \/ MoveEnd \/ MoveBegin

SpecMove == Init /\ [][NextMove]_vars

Reversed(q) == [k \in 1 .. Len(q) |-> q[Len(q) + 1 - k]]

\* The addresses of the elements lo+1 .. hi of the deque before the move.
OldAddrs(lo, hi) ==
    [k \in 1 .. (hi - lo) |-> Addresses(last.pred)[lo + k]]

\* The copies a move by last.n of the range [last.i, last.v) makes: none
\* when the range is empty or the move is by nothing.
MoveCopies == IF last.n = 0 THEN 0 ELSE last.v - last.i

\* C35: after _move_elem_to_end(b, e, c) the slots [b+c, e+c) hold the values
\* [b, e) held and every other slot its own, the copies going from the last
\* element backward; after _move_elem_to_begin(b, e, c) the slots [b-c, e-c)
\* hold them, the copies going from the first element forward; the move
\* copies each element of [b, e) once, reads only the source range and
\* writes only the target range.
C35_Move ==
    /\ (last.op = "move_end" =>
            /\ ~d.fault
            /\ Elements(d) = MovedUp(last.pre, last.i, last.v, last.n)
            /\ Addresses(d) = Addresses(last.pred)
            /\ d.g.mcopies = MoveCopies
            /\ (last.n # 0 =>
                    /\ d.g.rd = Reversed(OldAddrs(last.i, last.v))
                    /\ d.g.wr = Reversed(OldAddrs(last.i + last.n,
                                                  last.v + last.n)))
            /\ (last.n = 0 => d.g.wr = <<>>))
    /\ (last.op = "move_begin" =>
            /\ ~d.fault
            /\ Elements(d) = MovedDown(last.pre, last.i, last.v, last.n)
            /\ Addresses(d) = Addresses(last.pred)
            /\ d.g.mcopies = MoveCopies
            /\ (last.n # 0 =>
                    /\ d.g.rd = OldAddrs(last.i, last.v)
                    /\ d.g.wr = OldAddrs(last.i - last.n, last.v - last.n))
            /\ (last.n = 0 => d.g.wr = <<>>))

\* C36: no assertion fails during _deque_insert_n or deque_insert_range at
\* any position of the deque: every iterator that iterator_prev and
\* iterator_next return inside the move of the insert belongs to the deque.
C36_InsertAsserts ==
    last.op \in {"insert_n", "insert_range"} => ~d.g.af

\* C37: the finish marker lies in [first, one-past-last) of its Block, the
\* start marker in [first, one-past-last], the start marker is at the
\* one-past-last boundary only if the start slot is strictly before the
\* finish slot, and the start slot is not after the finish slot.
C37_Markers ==
    /\ d.finish.corepos >= 0
    /\ d.finish.corepos < _DEQUE_ELEM_COUNT
    /\ d.start.corepos >= 0
    /\ d.start.corepos <= _DEQUE_ELEM_COUNT
    /\ (d.start.corepos = _DEQUE_ELEM_COUNT => d.start.mappos < d.finish.mappos)
    /\ d.start.mappos <= d.finish.mappos

\* Witness: a push_back into the last unused slot but one of the last Block
\* took a new Block, so that the finish marker is at its first slot and not
\* at the one-past-last boundary of the old one.
C37_Witness ==
    /\ last.op = "push_back"
    /\ ~d.fault /\ ~d.smashed
    /\ last.pred.finish.corepos = _DEQUE_ELEM_COUNT - 1
    /\ d.finish.corepos = 0
    /\ d.finish.mappos = last.pred.finish.mappos + 1
    /\ d.start.corepos = _DEQUE_ELEM_COUNT
    /\ d.start.mappos < d.finish.mappos

\* C40: whenever _expand_at_end or _expand_at_begin enters its shift branch
\* or its directory-reallocation branch, the index of the start slot in the
\* directory equals (map_size - valid_block_count) / 2, the value the code
\* takes as the old first slot of the valid run: the run is centred.
C40_RunCentred ==
    (/\ last.op \in {"expand_end", "expand_begin"}
     /\ d.g.branch \in {"shift", "realloc"})
        => last.pred.start.mappos = Spare(last.pred) \div 2

====
